---------------------------- MODULE Spec2Model ----------------------------
(***************************************************************************)
(* A model of the WebSocket-to-UDP OSC relay (bridge.js, carried in        *)
(* src/CONFIG.md lines 88-417) of the Palacio-Viz control panel.           *)
(*                                                                         *)
(* JavaScript values are pairs <<tag, payload>>; the tag is compared       *)
(* first, so payloads of different JavaScript types are never compared.    *)
(* A JavaScript string is the sequence of its characters.  A JSON object   *)
(* is a record of the three own properties the relay or the runtime ever   *)
(* looks at (address, args, toString); an absent property is Undefined.    *)
(***************************************************************************)
EXTENDS Integers, Sequences, FiniteSets

\* ------------------------------------------------------------ bounds

\* connections the WebSocket server accepts in one run
MaxConns == 2
\* WebSocket messages handled in one run of Spec
MaxMsgs == 2
\* longest args list of a Control Message in SpecTranslate
MaxArgs == 2
\* largest JSON number in a Control Message
MaxNum == 1
\* WebSockets the useOSC hook may create
MaxSockets == 7
\* calls of connect() and disconnect() by the component that uses the hook
MaxCalls == 2
\* largest coordinate of the grid a pointer position is read on
MaxPos == 1
\* positions scheduled for onChange in one drag
MaxMoves == 2
\* drags of one control
MaxDrags == 2
\* longest text typed into a text input
MaxText == 2
\* edits and presses of Enter in a text input
MaxEdits == 3
\* prompts typed into the two inputs of the prompt view
MaxPrompts == 3
\* colour pairs in the colour history
MaxPairs == 2
\* the latest reading of the clock
MaxClock == 2

\* ------------------------------------------------- JavaScript values

Undefined == <<"undefined", 0>>
Null == <<"null", 0>>
Num(n) == <<"number", n>>
Str(s) == <<"string", s>>
Bool(b) == <<"boolean", b>>
Arr(xs) == <<"array", xs>>
Obj(address, args, toStr) ==
    <<"object", [address |-> address, args |-> args, toString |-> toStr]>>

\* typeof v (arrays and null are "object")
TypeOf(v) ==
    CASE v[1] = "undefined" -> "undefined"
      [] v[1] = "number" -> "number"
      [] v[1] = "string" -> "string"
      [] v[1] = "boolean" -> "boolean"
      [] OTHER -> "object"

\* ToBoolean(v), as used by !v and if (v); JSON has no NaN
Truthy(v) ==
    CASE v[1] = "undefined" -> FALSE
      [] v[1] = "null" -> FALSE
      [] v[1] = "number" -> v[2] # 0
      [] v[1] = "string" -> Len(v[2]) > 0
      [] v[1] = "boolean" -> v[2]
      [] OTHER -> TRUE

IsArray(v) == v[1] = "array"

\* s.startsWith('/')
StartsWithSlash(s) == Len(s) >= 1 /\ s[1] = "/"

\* results of an evaluation that may throw
Ok(v) == <<"ok", v>>
Throw(e) == <<"throw", e>>
IsOk(r) == r[1] = "ok"

\* decimal digits of a natural number, as Number.prototype.toString
RECURSIVE NumToString(_)
NumToString(n) ==
    LET d == <<"0", "1", "2", "3", "4", "5", "6", "7", "8", "9">>[(n % 10) + 1]
    IN IF n < 10 THEN <<d>> ELSE Append(NumToString(n \div 10), d)

\* String(v): ToString of a primitive; an array joins its elements with ","
\* (null and undefined elements give ""); an object goes through
\* OrdinaryToPrimitive: toString is called when callable, then valueOf.  No
\* JSON value is callable, so an own "toString" property hides
\* Object.prototype.toString, Object.prototype.valueOf returns the object
\* itself, and the conversion throws a TypeError.
RECURSIVE ToStringJS(_)
RECURSIVE JoinJS(_)
JoinJS(xs) ==
    IF Len(xs) = 0 THEN Ok(<<>>)
    ELSE LET x == xs[Len(xs)]
             front == JoinJS(SubSeq(xs, 1, Len(xs) - 1))
             one == IF x[1] \in {"null", "undefined"} THEN Ok(<<>>) ELSE ToStringJS(x)
         IN IF ~IsOk(front) THEN front
            ELSE IF ~IsOk(one) THEN one
            ELSE IF Len(xs) = 1 THEN one
            ELSE Ok(front[2] \o <<",">> \o one[2])
ToStringJS(v) ==
    CASE v[1] = "undefined" -> Ok(<<"u", "n", "d", "e", "f", "i", "n", "e", "d">>)
      [] v[1] = "null" -> Ok(<<"n", "u", "l", "l">>)
      [] v[1] = "number" -> Ok(NumToString(v[2]))
      [] v[1] = "string" -> Ok(v[2])
      [] v[1] = "boolean" ->
            Ok(IF v[2] THEN <<"t", "r", "u", "e">> ELSE <<"f", "a", "l", "s", "e">>)
      [] v[1] = "array" -> JoinJS(v[2])
      [] OTHER ->
            IF v[2].toString # Undefined THEN Throw("TypeError")
            ELSE Ok(<<"[", "o", "b", "j", "e", "c", "t", " ",
                      "O", "b", "j", "e", "c", "t", "]">>)


\* ----------------------------------------------- Message Translator

\* JSON.parse(data.toString()): a payload is <<"text", 0>> (not JSON) or
\* <<"json", v>> (the JSON text of the value v)
JSONParse(data) ==
    IF data[1] = "json" THEN Ok(data[2]) ELSE Throw("parseError")

\* message.address / message.args: reading a property of null or undefined
\* throws; numbers, strings, booleans and arrays have no such property
GetProp(v, name) ==
    CASE v[1] \in {"null", "undefined"} -> Throw("TypeError")
      [] v[1] = "object" -> Ok(v[2][name])
      [] OTHER -> Ok(Undefined)

\* faulty variant: the leading-slash test is left out
InvalidAddressNoSlashTest(message) ==
    LET a == GetProp(message, "address")
    IN IF ~IsOk(a) THEN Throw("addressTypeError")
       ELSE IF ~Truthy(a[2]) THEN Ok(TRUE)
       ELSE IF a[2][1] # "string" THEN Throw("addressTypeError")
       ELSE Ok(FALSE)

\* !message.address || !message.address.startsWith('/'); a truthy address
\* that is no string has no startsWith method, and calling it throws
InvalidAddress(message) ==
    LET a == GetProp(message, "address")
    IN IF ~IsOk(a) THEN Throw("addressTypeError")
       ELSE IF ~Truthy(a[2]) THEN Ok(TRUE)
       ELSE IF a[2][1] # "string" THEN Throw("addressTypeError")
       ELSE Ok(~StartsWithSlash(a[2][2]))

\* an OSC argument { type, value }
OscArg(type, value) == [type |-> type, value |-> value]

\* the callback of args.map
MapArg(arg) ==
    IF TypeOf(arg) = "number" THEN Ok(OscArg("f", arg[2]))
    ELSE IF TypeOf(arg) = "string" THEN Ok(OscArg("s", arg[2]))
    ELSE IF TypeOf(arg) = "boolean" THEN Ok(OscArg("i", IF arg[2] THEN 1 ELSE 0))
    ELSE LET s == ToStringJS(arg)
         IN IF IsOk(s) THEN Ok(OscArg("s", s[2])) ELSE Throw("argsTypeError")

\* faulty variant: the arguments come out in reverse order
ProcessArgsReversed(message) ==
    LET a == message[2].args
        args == IF IsArray(a) THEN a[2] ELSE <<a>>
        n == Len(args)
    IN IF ~Truthy(a) THEN Ok(<<>>)
       ELSE IF \E i \in 1 .. n : ~IsOk(MapArg(args[i]))
            THEN Throw("argsTypeError")
       ELSE Ok([i \in 1 .. n |-> MapArg(args[n + 1 - i])[2]])

\* processedArgs: [] unless message.args is truthy; a non-array is wrapped
ProcessArgs(message) ==
    LET a == message[2].args
        args == IF IsArray(a) THEN a[2] ELSE <<a>>
    IN IF ~Truthy(a) THEN Ok(<<>>)
       ELSE IF \E i \in 1 .. Len(args) : ~IsOk(MapArg(args[i]))
            THEN Throw("argsTypeError")
       ELSE Ok([i \in 1 .. Len(args) |-> MapArg(args[i])[2]])

\* oscMessage = { address: message.address, args: processedArgs }
OscMessage(address, args) == [address |-> address, args |-> args]

\* osc.writePacket(oscMessage, {}): the codec is an external library; whether
\* it throws is an input of the handler, its output an opaque packet
WritePacket(oscMessage, codecThrows) ==
    IF codecThrows THEN Throw("encodeError") ELSE Ok(<<"osc", oscMessage>>)

\* what one run of a handler did: its outcome, what it logged, the buffers it
\* handed to udpSocket.send, and whether an exception left the handler
Result(outcome, log, bufs) ==
    [outcome |-> outcome, log |-> log, bufs |-> bufs, escaped |-> FALSE]

\* faulty variant: the handler has no outer catch
OuterCatchRethrows(e) ==
    [outcome |-> e, log |-> "none", bufs |-> <<>>, escaped |-> TRUE]

\* catch (error) of the message handler: logs, and the handler returns
OuterCatch(e) == Result(e, "error:Error processing WebSocket message", <<>>)

\* catch (error) around writePacket and udpSocket.send
InnerCatch(e) == Result(e, "error:Failed to encode OSC message", <<>>)

\* faulty variant: a message that arrives before 'listening' is sent all the same
NotReadySendsAnyway(oscMessage) ==
    Result("notReady", "warn:UDP socket not ready, message dropped",
           << <<"osc", oscMessage>> >>)

\* else branch of if (udpSocketReady): the message is dropped
NotReady(oscMessage) ==
    Result("notReady", "warn:UDP socket not ready, message dropped", <<>>)

\* if (udpSocketReady) { try { writePacket; udpSocket.send } catch } else
SendViaUdp(oscMessage, ready, codecThrows) ==
    IF ready
    THEN LET b == WritePacket(oscMessage, codecThrows)
         IN IF IsOk(b) THEN Result("sent", "debug:OSC message", <<b[2]>>)
            ELSE InnerCatch(b[2])
    ELSE NotReady(oscMessage)

\* the body of ws.on('message'), inside its try
OnMessage(data, ready, codecThrows) ==
    LET m == JSONParse(data)
    IN IF ~IsOk(m) THEN OuterCatch(m[2])
       ELSE LET bad == InvalidAddress(m[2])
            IN IF ~IsOk(bad) THEN OuterCatch(bad[2])
               ELSE IF bad[2] THEN Result("invalidAddress", "warn:Invalid OSC address", <<>>)
               ELSE LET pa == ProcessArgs(m[2])
                    IN IF ~IsOk(pa) THEN OuterCatch(pa[2])
                       ELSE SendViaUdp(OscMessage(m[2][2].address[2], pa[2]),
                                       ready, codecThrows)

\* ------------------------------------------------------ Relay Process

VARIABLES
    cfgHost,        \* TOUCHDESIGNER_HOST
    cfgPort,        \* TOUCHDESIGNER_PORT
    proc,           \* the process: "running", "exited", "killed", "crashed"
    exitCode,       \* its exit code once it has ended, else 0
    udpState,       \* udpSocket: "binding", "listening", "failed", "closed"
    udpSocketReady, \* the flag udpSocketReady
    wssState,       \* wss: "starting", "listening", "failed", "closed"
    conn,           \* each WebSocket session: "none", "open", "closed"
    wsOut,          \* what the relay has sent to each WebSocket client
    udpSent,        \* the calls of udpSocket.send, in order
    cbPending,      \* the number of their callbacks that have not run yet
    selfTest,       \* sendTestMessage: "idle", "outerArmed", "innerArmed",
                    \* "done" (test message sent), "encodeFailed", "notReady";
                    \* "off" once the process has ended
    tcpProbe,       \* testNetworkConnectivity: "idle", "connecting", "done",
                    \* "off"
    udpProbe,       \* testUDPConnectivity: "idle", "armed", "sent" (testSocket
                    \* has sent), "done" (its callback has run), "off"
    rx,             \* history: what became of each message of each session
    last            \* history: the message the latest event handled, if any

\* the useOSC hook of the web client (src/hooks/useOSC.ts)
VARIABLES
    mounted,              \* the effect of the hook: "no", "yes", "cleanedUp"
    sockets,              \* every WebSocket created so far, in order: its
                          \* state "CONNECTING", "OPEN", "CLOSING" (close()
                          \* called while open), "FAILING" (close() called
                          \* while connecting; readyState CLOSING), "CLOSED"
    wsRef,                \* wsRef.current: an index into sockets, 0 for null
    reconnectTimeoutRef,  \* reconnectTimeoutRef.current: "undefined",
                          \* "pending", or "stale" (fired or cleared)
    orphanTimers,         \* pending reconnect timers the ref no longer holds
    reconnectAttemptsRef, \* reconnectAttemptsRef.current
    isConnected,          \* React state
    connectionStatus,     \* React state
    error,                \* React state; "null" for null
    calls,                \* history: calls of connect() and disconnect()
    stopped,              \* history: disconnect() was called, connect() not yet
    event,                \* history: what the latest step of the hook was
    everOpen              \* history: some socket has opened

relayVars ==
    <<cfgHost, cfgPort, proc, exitCode, udpState, udpSocketReady, wssState,
      conn, wsOut, udpSent, cbPending, selfTest, tcpProbe, udpProbe, rx, last>>

hookVars ==
    <<mounted, sockets, wsRef, reconnectTimeoutRef, orphanTimers,
      reconnectAttemptsRef, isConnected, connectionStatus, error, calls,
      stopped, event, everOpen>>

\* a drag control of the web client: XYControl or MyKnobHeadless
VARIABLES
    control,            \* which of the two components this is
    dragMounted,        \* the component is mounted
    isDraggingRef,      \* isDraggingRef.current
    activePointerIdRef, \* activePointerIdRef.current; 0 for null
    startValueRef,      \* startValueRef.current (MyKnobHeadless)
    startYRef,          \* startYRef.current (MyKnobHeadless)
    pendingRef,         \* pendingRef.current: <<>> for null, else <<entry>>,
                        \* the value and (history) its number among the
                        \* values scheduled in this drag
    rafRef,             \* rafRef.current != null: a frame is requested
    displayPos,         \* React state displayPos (displayValue of the knob)
    scheduled,          \* history: calls of schedule() in this drag
    dragLog,            \* history: calls of onChange and onChangeEnd since
                        \* the latest drag began
    lastPos,            \* history: the latest position of the latest drag
    drags,              \* history: drags begun
    endSeen             \* history: the kinds of end events delivered since
                        \* the latest drag began

dragVars ==
    <<control, dragMounted, isDraggingRef, activePointerIdRef, startValueRef,
      startYRef, pendingRef, rafRef, displayPos, scheduled, dragLog, lastPos,
      drags, endSeen>>

\* a DebouncedTextInput of the web client
VARIABLES
    multiline,      \* the prop multiline
    textMounted,    \* the component is mounted
    valueProp,      \* the prop value
    internalValue,  \* React state internalValue
    timeoutRef,     \* timeoutRef.current: the id of a timer, 0 for null
    textTimers,     \* the timers that are set and have neither fired nor
                    \* been cleared: the id and the text each will pass on
    timerIds,       \* the timer ids issued so far
    textLog,        \* history: the calls of onChange
    lastEdit,       \* history: the text after the latest edit
    edits           \* history: edits and presses of Enter so far

textVars ==
    <<multiline, textMounted, valueProp, internalValue, timeoutRef,
      textTimers, timerIds, textLog, lastEdit, edits>>

\* the PromptView of the web client
VARIABLES
    promptHistory,  \* React state promptHistory
    leftPrompt,     \* React state leftPrompt
    rightPrompt,    \* React state rightPrompt
    pendingPrompt,  \* for the left and the right input: <<>>, or the prompt
                    \* its pending debounce timer will pass on and the
                    \* promptHistory of the render whose handler it calls
    typed           \* history: prompts typed so far

promptVars == <<promptHistory, leftPrompt, rightPrompt, pendingPrompt, typed>>

\* the ColorHistory of the web client, the lights store and the browser
VARIABLES
    colorHistory,   \* React state colorHistory
    storage,        \* localStorage: <<>>, or the text stored under
                    \* STORAGE_KEY
    leftColor,      \* leftColor of the lights store
    rightColor,     \* rightColor of the lights store
    clock,          \* the latest value Date.now() returned
    colorPhase,     \* "rendered" until the effect of the mount has run,
                    \* "loaded" from then on
    colorEvent      \* history: what the latest step of the component was

colorVars == <<colorHistory, storage, leftColor, rightColor, clock,
               colorPhase, colorEvent>>

uiVars == <<dragVars, textVars, promptVars, colorVars>>

vars == <<relayVars, hookVars, uiVars>>

XY == "XYControl"
Knob == "MyKnobHeadless"

\* initialValue: the centre of the pad, or the knob at its minimum
InitialValue(c) == IF c = XY THEN <<0, 0>> ELSE 0

\* a drag control after its first render
DragInit(controls) ==
    /\ control \in controls
    /\ dragMounted = TRUE
    /\ isDraggingRef = FALSE
    /\ activePointerIdRef = 0
    /\ startValueRef = 0
    /\ startYRef = 0
    /\ pendingRef = <<>>
    /\ rafRef = FALSE
    /\ displayPos = InitialValue(control)
    /\ scheduled = 0
    /\ dragLog = <<>>
    /\ lastPos = InitialValue(control)
    /\ drags = 0
    /\ endSeen = {}

\* a text input after its first render, with an empty value
TextInit(modes) ==
    /\ multiline \in modes
    /\ textMounted = TRUE
    /\ valueProp = <<>>
    /\ internalValue = <<>>
    /\ timeoutRef = 0
    /\ textTimers = {}
    /\ timerIds = 0
    /\ textLog = <<>>
    /\ lastEdit = <<>>
    /\ edits = 0

Sides == {"left", "right"}

\* the prompt view after its first render
PromptInit ==
    /\ promptHistory = <<>>
    /\ leftPrompt = <<>>
    /\ rightPrompt = <<>>
    /\ pendingPrompt = [side \in Sides |-> <<>>]
    /\ typed = 0

Red == "#ff0000"
Blue == "#0000ff"

\* a step of the colour history: the operation, the row it was asked for,
\* and whether localStorage took the list
ColorEvent(op, index, wrote) == [op |-> op, index |-> index, wrote |-> wrote]

\* the colour history after its first render, in a browser that has stored
\* nothing yet
ColorInit ==
    /\ colorHistory = <<>>
    /\ storage = <<>>
    /\ leftColor = Red
    /\ rightColor = Blue
    /\ clock = 1
    /\ colorPhase = "rendered"
    /\ colorEvent = ColorEvent("none", 0, FALSE)

\* the components of the web client after their first render
UiInit(controls) ==
    /\ DragInit(controls)
    /\ TextInit({FALSE})
    /\ PromptInit
    /\ ColorInit

\* no step of the hook yet
NoEvent == [kind |-> "none", socket |-> 0, code |-> 0, text |-> <<"none", 0>>]

\* the hook as useOSC returns it on the first render, before its effect runs
HookInit ==
    /\ mounted = "no"
    /\ sockets = <<>>
    /\ wsRef = 0
    /\ reconnectTimeoutRef = "undefined"
    /\ orphanTimers = 0
    /\ reconnectAttemptsRef = 0
    /\ isConnected = FALSE
    /\ connectionStatus = "disconnected"
    /\ error = "null"
    /\ calls = 0
    /\ stopped = FALSE
    /\ event = NoEvent
    /\ everOpen = FALSE

Conns == 1 .. MaxConns

DefaultHost == "127.0.0.1"
DefaultPort == 7000

\* process.env.TOUCHDESIGNER_HOST || '127.0.0.1'; "" is unset or empty
HostOrDefault(env) == IF env = "" THEN DefaultHost ELSE env

\* parseInt(process.env.TOUCHDESIGNER_PORT) || 7000; 0 stands for both falsy
\* results of parseInt, NaN (unset, not a number) and 0
PortOrDefault(parsed) == IF parsed = 0 THEN DefaultPort ELSE parsed

\* the environment: each of the two variables unset or set
Envs == [host : {"", "192.168.1.100"}, port : {0, 7001}]

\* one environment that takes both paths: the host unset, the port set
FewEnvs == {[host |-> "", port |-> 7001]}

NoData == <<"none", 0>>

\* the latest event was no message
NoMessage ==
    [conn |-> 0, data |-> NoData, outcome |-> "none", log |-> "none",
     ready |-> FALSE]

\* the latest event was a handler that only logs
Logged(handler, line) ==
    [NoMessage EXCEPT !.outcome = handler, !.log = line]

\* faulty variant: the destination is the default one
DatagramToDefault(sock, buf, src) ==
    [sock |-> sock, buf |-> buf, port |-> DefaultPort, host |-> DefaultHost,
     src |-> src]

\* one call of send: the socket, the buffer, the destination, and (history)
\* what caused it, <<"ws", session, index of the message>> or a self-test
Datagram(sock, buf, src) ==
    [sock |-> sock, buf |-> buf, port |-> cfgPort, host |-> cfgHost, src |-> src]

\* faulty variant: the datagram jumps the queue
UdpSendFirst(sent, dgram) == <<dgram>> \o sent

\* faulty variant: the datagram is submitted twice
UdpSendTwice(sent, dgram) == sent \o <<dgram, dgram>>

\* udpSocket.send(oscBuffer, TOUCHDESIGNER_PORT, TOUCHDESIGNER_HOST, cb)
UdpSend(sent, dgram) == Append(sent, dgram)

\* all buffers a handler submitted, in order
RECURSIVE UdpSendAll(_, _, _)
UdpSendAll(sent, bufs, src) ==
    IF bufs = <<>> THEN sent
    ELSE UdpSendAll(UdpSend(sent, Datagram("udpSocket", Head(bufs), src)),
                    Tail(bufs), src)

\* the state once the top level of bridge.js has run: both sockets created,
\* the handlers registered, the bind requested
RelayInit(envs) ==
    /\ \E env \in envs :
          /\ cfgHost = HostOrDefault(env.host)
          /\ cfgPort = PortOrDefault(env.port)
    /\ proc = "running"
    /\ exitCode = 0
    /\ udpState = "binding"
    /\ udpSocketReady = FALSE
    /\ wssState = "starting"
    /\ conn = [c \in Conns |-> "none"]
    /\ wsOut = [c \in Conns |-> <<>>]
    /\ udpSent = <<>>
    /\ cbPending = 0
    /\ selfTest = "idle"
    /\ tcpProbe = "idle"
    /\ udpProbe = "idle"
    /\ rx = [c \in Conns |-> <<>>]
    /\ last = NoMessage

InitIn(envs) == RelayInit(envs) /\ HookInit /\ UiInit({XY})

Init == InitIn(FewEnvs)

\* faulty variant: 'listening' does not start the self-test
UdpListeningNoSelfTest ==
    /\ proc = "running"
    /\ udpState = "binding"
    /\ udpState' = "listening"
    /\ udpSocketReady' = TRUE
    /\ UNCHANGED <<hookVars, uiVars>>
    /\ last' = NoMessage
    /\ UNCHANGED <<cfgHost, cfgPort, proc, exitCode, wssState, conn, wsOut,
                   udpSent, cbPending, selfTest, tcpProbe, udpProbe, rx>>

\* udpSocket.on('listening')
UdpListening ==
    /\ proc = "running"
    /\ udpState = "binding"
    /\ udpState' = "listening"
    /\ udpSocketReady' = TRUE
    /\ selfTest' = "outerArmed"
    /\ UNCHANGED <<hookVars, uiVars>>
    /\ last' = NoMessage
    /\ UNCHANGED <<cfgHost, cfgPort, proc, exitCode, wssState, conn, wsOut,
                   udpSent, cbPending, tcpProbe, udpProbe, rx>>

\* faulty variant: an error of the socket clears the flag
UdpErrorResetsReady ==
    /\ proc = "running"
    /\ udpState \in {"binding", "listening"}
    /\ udpState' = IF udpState = "binding" THEN "failed" ELSE udpState
    /\ udpSocketReady' = FALSE
    /\ UNCHANGED <<hookVars, uiVars>>
    /\ last' = NoMessage
    /\ UNCHANGED <<cfgHost, cfgPort, proc, exitCode, wssState, conn, wsOut,
                   udpSent, cbPending, selfTest, tcpProbe, udpProbe, rx>>

\* faulty variant: the error handler marks the socket ready all the same
UdpErrorSetsReady ==
    /\ proc = "running"
    /\ udpState \in {"binding", "listening"}
    /\ udpState' = IF udpState = "binding" THEN "failed" ELSE udpState
    /\ udpSocketReady' = TRUE
    /\ UNCHANGED <<hookVars, uiVars>>
    /\ last' = NoMessage
    /\ UNCHANGED <<cfgHost, cfgPort, proc, exitCode, wssState, conn, wsOut,
                   udpSent, cbPending, selfTest, tcpProbe, udpProbe, rx>>

\* udpSocket.on('error'): a failed bind, or a later socket error
UdpError ==
    /\ proc = "running"
    /\ udpState \in {"binding", "listening"}
    /\ udpState' = IF udpState = "binding" THEN "failed" ELSE udpState
    /\ UNCHANGED <<hookVars, uiVars>>
    /\ last' = NoMessage
    /\ UNCHANGED <<cfgHost, cfgPort, proc, exitCode, udpSocketReady, wssState,
                   conn, wsOut, udpSent, cbPending, selfTest, tcpProbe,
                   udpProbe, rx>>

\* faulty variant: a datagram that decodes is passed on to the clients
UdpMessageForwards(decodes) ==
    /\ proc = "running"
    /\ udpState = "listening"
    /\ UNCHANGED <<hookVars, uiVars>>
    /\ last' = Logged("udpMessage", "log:Received UDP message")
    /\ wsOut' = [c \in Conns |->
                    IF decodes /\ conn[c] = "open"
                    THEN Append(wsOut[c], [type |-> "osc"])
                    ELSE wsOut[c]]
    /\ UNCHANGED <<cfgHost, cfgPort, proc, exitCode, udpState, udpSocketReady,
                   wssState, conn, udpSent, cbPending, selfTest, tcpProbe,
                   udpProbe, rx>>

\* udpSocket.on('message'): a datagram arrives; whether or not readPacket
\* decodes it, the handler only logs, first of all that it arrived
UdpMessage(decodes) ==
    /\ proc = "running"
    /\ udpState = "listening"
    /\ UNCHANGED <<hookVars, uiVars>>
    /\ last' = Logged("udpMessage", "log:Received UDP message")
    /\ UNCHANGED <<cfgHost, cfgPort, proc, exitCode, udpState, udpSocketReady,
                   wssState, conn, wsOut, udpSent, cbPending, selfTest,
                   tcpProbe, udpProbe, rx>>

\* wss.on('listening')
WssListening ==
    /\ proc = "running"
    /\ wssState = "starting"
    /\ wssState' = "listening"
    /\ UNCHANGED <<hookVars, uiVars>>
    /\ last' = NoMessage
    /\ UNCHANGED <<cfgHost, cfgPort, proc, exitCode, udpState, udpSocketReady,
                   conn, wsOut, udpSent, cbPending, selfTest, tcpProbe,
                   udpProbe, rx>>

\* wss.on('error'): a failed listen, or a later server error
WssError ==
    /\ proc = "running"
    /\ wssState \in {"starting", "listening"}
    /\ wssState' = IF wssState = "starting" THEN "failed" ELSE wssState
    /\ UNCHANGED <<hookVars, uiVars>>
    /\ last' = NoMessage
    /\ UNCHANGED <<cfgHost, cfgPort, proc, exitCode, udpState, udpSocketReady,
                   conn, wsOut, udpSent, cbPending, selfTest, tcpProbe,
                   udpProbe, rx>>

\* the status message of the connection handler
Status(host, port) ==
    [type |-> "status", message |-> "Connected to OSC bridge",
     touchdesignerHost |-> host, touchdesignerPort |-> port]

\* faulty variant: the greeting reports the default destination
WelcomeDefaults(out, host, port) ==
    Append(out, Status(DefaultHost, DefaultPort))

\* ws.send(JSON.stringify({ type: 'status', ... }))
Welcome(out, host, port) == Append(out, Status(host, port))

\* wss.on('connection'): sessions are numbered in the order they are accepted
Connect(c) ==
    /\ proc = "running"
    /\ wssState = "listening"
    /\ conn[c] = "none"
    /\ \A b \in Conns : b < c => conn[b] # "none"
    /\ conn' = [conn EXCEPT ![c] = "open"]
    /\ wsOut' = [wsOut EXCEPT ![c] = Welcome(@, cfgHost, cfgPort)]
    /\ UNCHANGED <<hookVars, uiVars>>
    /\ last' = NoMessage
    /\ UNCHANGED <<cfgHost, cfgPort, proc, exitCode, udpState, udpSocketReady,
                   wssState, udpSent, cbPending, selfTest, tcpProbe, udpProbe,
                   rx>>

\* messages handled so far, over all sessions
RECURSIVE SumLen(_, _)
SumLen(f, n) == IF n = 0 THEN 0 ELSE Len(f[n]) + SumLen(f, n - 1)
Handled == SumLen(rx, MaxConns)

\* what became of a message: "sent", "notReady", or "dropped" with a log line
Disposition(outcome) ==
    IF outcome \in {"sent", "notReady"} THEN outcome ELSE "dropped"

\* ws.on('message') without its (absent) use of ws.send: the handler runs to
\* its end in one step; an exception that left it would end the process
HandleMessage(c, data, codecThrows) ==
    LET r == OnMessage(data, udpSocketReady, codecThrows)
        sent == UdpSendAll(udpSent, r.bufs, <<"ws", c, Len(rx[c]) + 1>>)
    IN /\ proc = "running"
       /\ conn[c] = "open"
       /\ udpSent' = sent
       /\ cbPending' = cbPending + (Len(sent) - Len(udpSent))
       /\ rx' = [rx EXCEPT ![c] = Append(@, Disposition(r.outcome))]
       /\ UNCHANGED <<hookVars, uiVars>>
       /\ last' = [conn |-> c, data |-> data, outcome |-> r.outcome,
                   log |-> r.log, ready |-> udpSocketReady]
       /\ proc' = IF r.escaped THEN "crashed" ELSE proc
       /\ exitCode' = IF r.escaped THEN 1 ELSE exitCode
       /\ UNCHANGED <<cfgHost, cfgPort, udpState, udpSocketReady, wssState,
                      conn, selfTest, tcpProbe, udpProbe>>

\* faulty variant: the handler answers the client
WsMessageReplies(c, data, codecThrows) ==
    /\ HandleMessage(c, data, codecThrows)
    /\ wsOut' = [wsOut EXCEPT ![c] =
                    Append(@, [type |-> "error", message |-> last'.outcome,
                               touchdesignerHost |-> cfgHost,
                               touchdesignerPort |-> cfgPort])]

\* ws.on('message'): nothing in the handler sends to the client
WsMessage(c, data, codecThrows) ==
    /\ HandleMessage(c, data, codecThrows)
    /\ UNCHANGED wsOut

\* faulty variant: the close of one session ends every session
WsCloseAll(c) ==
    /\ proc = "running"
    /\ conn[c] = "open"
    /\ conn' = [b \in Conns |-> IF conn[b] = "open" THEN "closed" ELSE conn[b]]
    /\ UNCHANGED <<hookVars, uiVars>>
    /\ last' = NoMessage
    /\ UNCHANGED <<cfgHost, cfgPort, proc, exitCode, udpState, udpSocketReady,
                   wssState, wsOut, udpSent, cbPending, selfTest, tcpProbe,
                   udpProbe, rx>>

\* ws.on('close')
WsClose(c) ==
    /\ proc = "running"
    /\ conn[c] = "open"
    /\ conn' = [conn EXCEPT ![c] = "closed"]
    /\ UNCHANGED <<hookVars, uiVars>>
    /\ last' = NoMessage
    /\ UNCHANGED <<cfgHost, cfgPort, proc, exitCode, udpState, udpSocketReady,
                   wssState, wsOut, udpSent, cbPending, selfTest, tcpProbe,
                   udpProbe, rx>>

\* ws.on('error')
WsError(c) ==
    /\ proc = "running"
    /\ conn[c] = "open"
    /\ UNCHANGED <<hookVars, uiVars>>
    /\ last' = NoMessage
    /\ UNCHANGED <<cfgHost, cfgPort, proc, exitCode, udpState, udpSocketReady,
                   wssState, conn, wsOut, udpSent, cbPending, selfTest,
                   tcpProbe, udpProbe, rx>>

\* what a send callback is called with: no error, or an error with a code
SendErrors ==
    {"none", "ENETUNREACH", "EHOSTUNREACH", "ECONNREFUSED", "EOTHER"}

\* the first line the callback of a send logs; the lines that follow it
\* depend on the error code
CallbackLog(err) ==
    IF err = "none" THEN "log:OSC" ELSE "error:Failed to send OSC message"

\* the call of send whose callback runs next: callbacks run in the order of
\* the calls
OldestPending == udpSent[Len(udpSent) - cbPending + 1]

\* faulty variant: a failed send is submitted again
SendCallbackRetries(err) ==
    /\ proc = "running"
    /\ cbPending > 0
    /\ cbPending' = IF err = "none" THEN cbPending - 1 ELSE cbPending
    /\ udpSent' = IF err = "none" THEN udpSent
                  ELSE Append(udpSent, OldestPending)
    /\ UNCHANGED <<hookVars, uiVars>>
    /\ last' = Logged("sendCallback", CallbackLog(err))
    /\ UNCHANGED <<cfgHost, cfgPort, proc, exitCode, udpState, udpSocketReady,
                   wssState, conn, wsOut, selfTest, tcpProbe, udpProbe, rx>>

\* the callback of udpSocket.send, called with or without an error: it only
\* logs, whatever the error code
SendCallback(err) ==
    /\ proc = "running"
    /\ cbPending > 0
    /\ cbPending' = cbPending - 1
    /\ UNCHANGED <<hookVars, uiVars>>
    /\ last' = Logged("sendCallback", CallbackLog(err))
    /\ UNCHANGED <<cfgHost, cfgPort, proc, exitCode, udpState, udpSocketReady,
                   wssState, conn, wsOut, udpSent, selfTest, tcpProbe,
                   udpProbe, rx>>

\* the end of the process takes its sessions, its timers and the callbacks
\* that have not run with it
EndOfProcess ==
    /\ conn' = [c \in Conns |-> IF conn[c] = "open" THEN "closed" ELSE conn[c]]
    /\ cbPending' = 0
    /\ selfTest' = "off"
    /\ tcpProbe' = "off"
    /\ udpProbe' = IF udpProbe \in {"sent", "done"} THEN "done" ELSE "off"
    /\ UNCHANGED <<hookVars, uiVars>>
    /\ last' = NoMessage
    /\ UNCHANGED <<cfgHost, cfgPort, udpSocketReady, wsOut, udpSent, rx>>

\* process.on('SIGINT'): wss.close(), udpSocket.close() when ready, exit(0)
Sigint ==
    /\ proc = "running"
    /\ proc' = "exited"
    /\ exitCode' = 0
    /\ wssState' = "closed"
    /\ udpState' = IF udpSocketReady THEN "closed" ELSE udpState
    /\ EndOfProcess

\* SIGTERM: no handler is registered for it, so the runtime's default ends
\* the process by the signal (exit status 128 + 15); neither close is called
Sigterm ==
    /\ proc = "running"
    /\ proc' = "killed"
    /\ exitCode' = 128 + 15
    /\ UNCHANGED <<wssState, udpState>>
    /\ EndOfProcess

\* sendTestMessage, run by the timer of the 'listening' handler: starts
\* testNetworkConnectivity and arms the timer of the OSC test
SendTestMessage ==
    /\ proc = "running"
    /\ selfTest = "outerArmed"
    /\ selfTest' = "innerArmed"
    /\ tcpProbe' = "connecting"
    /\ UNCHANGED <<hookVars, uiVars>>
    /\ last' = NoMessage
    /\ UNCHANGED <<cfgHost, cfgPort, proc, exitCode, udpState, udpSocketReady,
                   wssState, conn, wsOut, udpSent, cbPending, udpProbe, rx>>

\* 'connect', 'timeout', and 'error' with ECONNREFUSED or another code
TcpEvents == {"connect", "timeout", "ECONNREFUSED", "EOTHER"}

\* the 'connect', 'timeout' or 'error' handler of the TCP probe; a connect or
\* a refused connection arms the timer of testUDPConnectivity
TcpProbeEvent(ev) ==
    /\ proc = "running"
    /\ tcpProbe = "connecting"
    /\ tcpProbe' = "done"
    /\ udpProbe' = IF ev \in {"connect", "ECONNREFUSED"} THEN "armed" ELSE udpProbe
    /\ UNCHANGED <<hookVars, uiVars>>
    /\ last' = NoMessage
    /\ UNCHANGED <<cfgHost, cfgPort, proc, exitCode, udpState, udpSocketReady,
                   wssState, conn, wsOut, udpSent, cbPending, selfTest, rx>>

\* testUDPConnectivity: a socket of its own sends the bytes 'UDP_TEST'
TestUDPConnectivity ==
    /\ proc = "running"
    /\ udpProbe = "armed"
    /\ udpProbe' = "sent"
    /\ UNCHANGED <<hookVars, uiVars>>
    /\ last' = NoMessage
    /\ UNCHANGED <<cfgHost, cfgPort, proc, exitCode, udpState, udpSocketReady,
                   wssState, conn, wsOut, udpSent, cbPending, selfTest,
                   tcpProbe, rx>>

\* what the callback of testSocket.send tells apart
ProbeErrors == {"none", "ENETUNREACH", "EOTHER"}

\* the callback of testSocket.send: logs, and closes testSocket
ProbeCallback(err) ==
    /\ proc = "running"
    /\ udpProbe = "sent"
    /\ udpProbe' = "done"
    /\ UNCHANGED <<hookVars, uiVars>>
    /\ last' = NoMessage
    /\ UNCHANGED <<cfgHost, cfgPort, proc, exitCode, udpState, udpSocketReady,
                   wssState, conn, wsOut, udpSent, cbPending, selfTest,
                   tcpProbe, rx>>

\* the call of testSocket.send, once it has been made
ProbeSent ==
    IF udpProbe \in {"sent", "done"}
    THEN <<Datagram("testSocket", <<"raw", "UDP_TEST">>, <<"probe", 0, 0>>)>>
    ELSE <<>>

\* every call of send of the process: those of udpSocket in order, and the
\* one of testSocket
AllSent == udpSent \o ProbeSent

\* testMessage of sendTestMessage
TestMessage ==
    OscMessage(<<"/", "t", "e", "s", "t">>,
               <<OscArg("s", <<"b", "r", "i", "d", "g", "e", "_",
                               "r", "e", "a", "d", "y">>),
                 OscArg("f", 1)>>)

\* the inner timer of sendTestMessage: the OSC test message
TestOscSend(codecThrows) ==
    LET b == WritePacket(TestMessage, codecThrows)
        sends == udpSocketReady /\ IsOk(b)
    IN /\ proc = "running"
       /\ selfTest = "innerArmed"
       /\ selfTest' = IF sends THEN "done"
                      ELSE IF udpSocketReady THEN "encodeFailed" ELSE "notReady"
       /\ udpSent' = IF sends
                     THEN UdpSend(udpSent, Datagram("udpSocket", b[2],
                                                    <<"selftest", 0, 0>>))
                     ELSE udpSent
       /\ cbPending' = IF sends THEN cbPending + 1 ELSE cbPending
       /\ UNCHANGED <<hookVars, uiVars>>
       /\ last' = NoMessage
       /\ UNCHANGED <<cfgHost, cfgPort, proc, exitCode, udpState,
                      udpSocketReady, wssState, conn, wsOut, tcpProbe,
                      udpProbe, rx>>

\* ------------------------------------------------------------ inputs

UpTo(S, n) == UNION {[1 .. k -> S] : k \in 0 .. n}

Chars == {"/", "a"}
AddressStrings == UpTo(Chars, 2)

EmptyObject == Obj(Undefined, Undefined, Undefined)
\* { "toString": 1 }
ObjectWithToString == Obj(Undefined, Undefined, Num(1))

\* the scalars of the wire protocol
Scalars ==
    {Num(n) : n \in 0 .. MaxNum} \cup {Str(<<>>), Str(<<"a">>)}
        \cup {Bool(TRUE), Bool(FALSE)}

\* what an element of args may be
Elements ==
    Scalars \cup {Null, EmptyObject, ObjectWithToString, Arr(<<>>),
                  Arr(<<Num(1), Null>>), Arr(<<ObjectWithToString>>)}

ArgsValues ==
    {Undefined} \cup Elements \cup {Arr(xs) : xs \in UpTo(Elements, MaxArgs)}

AddressValues ==
    {Undefined, Null, Num(0), Num(1), Bool(TRUE), Bool(FALSE), Arr(<<>>),
     EmptyObject} \cup {Str(s) : s \in AddressStrings}

\* every payload of the bounded wire protocol: text that is no JSON, JSON
\* that is no object, and objects with any address and any args
AllPayloads ==
    {<<"text", 0>>}
        \cup {<<"json", v>> : v \in {Null, Num(1), Str(<<"/", "a">>),
                                     Bool(TRUE), Arr(<<>>)}}
        \cup {<<"json", Obj(a, g, Undefined)>> :
                 a \in AddressValues, g \in ArgsValues}

\* a few payloads, for runs of several messages
FewPayloads ==
    {<<"text", 0>>,
     <<"json", Obj(Str(<<"a">>), Undefined, Undefined)>>,
     <<"json", Obj(Str(<<"/", "a">>), Arr(<<Num(1), Bool(TRUE)>>), Undefined)>>}

\* ---------------------------------------------------- specifications

\* the event handlers and timers other than the message handler
Others ==
    \/ UdpListening
    \/ UdpError
    \/ \E decodes \in BOOLEAN : UdpMessage(decodes)
    \/ WssListening
    \/ WssError
    \/ \E c \in Conns : Connect(c)
    \/ \E c \in Conns : WsClose(c)
    \/ \E c \in Conns : WsError(c)
    \/ \E err \in SendErrors : SendCallback(err)
    \/ Sigint
    \/ Sigterm
    \/ SendTestMessage
    \/ \E ev \in TcpEvents : TcpProbeEvent(ev)
    \/ TestUDPConnectivity
    \/ \E err \in ProbeErrors : ProbeCallback(err)
    \/ \E codecThrows \in BOOLEAN : TestOscSend(codecThrows)

\* what osc.writePacket may do with a payload: encode it or throw, when the
\* handler gets as far as calling it
CodecChoices(data) ==
    IF OnMessage(data, udpSocketReady, FALSE).outcome = "sent"
    THEN BOOLEAN ELSE {FALSE}

\* a message from payloads on an open session, while fewer than limit
\* messages have been handled
Message(payloads, limit) ==
    /\ Handled < limit
    /\ \E c \in {b \in Conns : conn[b] = "open"}, data \in payloads :
          \E codecThrows \in CodecChoices(data) :
              WsMessage(c, data, codecThrows)

\* the relay, with up to MaxMsgs messages drawn from a few payloads
Next == Others \/ Message(FewPayloads, MaxMsgs)
Spec == Init /\ [][Next]_vars

\* the message handler applied once, to any payload, on the first session,
\* before or after the UDP socket is listening, in any environment
NextTranslate ==
    \/ UdpListening
    \/ WssListening
    \/ Connect(1)
    \/ Message(AllPayloads, 1)
SpecTranslate == InitIn(Envs) /\ [][NextTranslate]_vars

\* the relay with its timers: a timer that has been set fires unless the
\* process ends first; one relayed message is enough to interleave with the
\* timers, which read nothing that a message writes
NextTimers == Others \/ Message(FewPayloads, 1)
SpecTimers ==
    /\ Init
    /\ [][NextTimers]_vars
    /\ WF_vars(SendTestMessage)
    /\ WF_vars(\E codecThrows \in BOOLEAN : TestOscSend(codecThrows))

\* ------------------------------------------------------- the useOSC hook

maxReconnectAttempts == 5

\* ws.readyState
ReadyState(st) == IF st = "FAILING" THEN "CLOSING" ELSE st

\* what a step of the hook was
Event(kind, socket, code) ==
    [kind |-> kind, socket |-> socket, code |-> code, text |-> <<"none", 0>>]

\* the reconnect timers that have been set and have neither fired nor been
\* cleared
PendingTimers ==
    orphanTimers + (IF reconnectTimeoutRef = "pending" THEN 1 ELSE 0)

\* the body of connect(): nothing when the current socket is open; else a
\* new WebSocket with its handlers, unless the constructor throws
ConnectBody(ctorThrows) ==
    IF wsRef # 0 /\ ReadyState(sockets[wsRef]) = "OPEN"
    THEN UNCHANGED <<sockets, wsRef, connectionStatus, error>>
    ELSE IF ctorThrows
    THEN /\ connectionStatus' = "disconnected"
         /\ error' = "Failed to create WebSocket connection"
         /\ UNCHANGED <<sockets, wsRef>>
    ELSE /\ Len(sockets) < MaxSockets
         /\ sockets' = Append(sockets, "CONNECTING")
         /\ wsRef' = Len(sockets) + 1
         /\ connectionStatus' = "connecting"
         /\ error' = "null"

\* ws.close(1000) on one socket
CloseSocket(st) ==
    CASE st = "CONNECTING" -> "FAILING"
      [] st = "OPEN" -> "CLOSING"
      [] OTHER -> st

\* the body of disconnect()
DisconnectBody ==
    /\ reconnectTimeoutRef' =
          IF reconnectTimeoutRef = "pending" THEN "stale"
          ELSE reconnectTimeoutRef
    /\ sockets' = IF wsRef # 0
                  THEN [sockets EXCEPT ![wsRef] = CloseSocket(@)]
                  ELSE sockets
    /\ wsRef' = 0
    /\ isConnected' = FALSE
    /\ connectionStatus' = "disconnected"
    /\ reconnectAttemptsRef' = 0
    /\ stopped' = TRUE
    /\ UNCHANGED <<orphanTimers, error, everOpen>>

\* the effect of the hook runs: connect() when autoConnect is set
Mount(autoConnect, ctorThrows) ==
    /\ mounted = "no"
    /\ mounted' = "yes"
    /\ IF autoConnect THEN ConnectBody(ctorThrows)
       ELSE UNCHANGED <<sockets, wsRef, connectionStatus, error>>
    /\ event' = Event("mount", 0, 0)
    /\ UNCHANGED <<reconnectTimeoutRef, orphanTimers, reconnectAttemptsRef,
                   isConnected, calls, stopped, everOpen>>
    /\ UNCHANGED <<relayVars, uiVars>>

\* the cleanup of the effect: disconnect()
Unmount ==
    /\ mounted = "yes"
    /\ mounted' = "cleanedUp"
    /\ DisconnectBody
    /\ event' = Event("disconnect", 0, 0)
    /\ UNCHANGED calls
    /\ UNCHANGED <<relayVars, uiVars>>

\* connect(), called by the component
connect(ctorThrows) ==
    /\ mounted = "yes"
    /\ calls < MaxCalls
    /\ calls' = calls + 1
    /\ ConnectBody(ctorThrows)
    /\ stopped' = FALSE
    /\ event' = Event("connect", 0, 0)
    /\ UNCHANGED <<mounted, reconnectTimeoutRef, orphanTimers,
                   reconnectAttemptsRef, isConnected, everOpen>>
    /\ UNCHANGED <<relayVars, uiVars>>

\* disconnect(), called by the component
disconnect ==
    /\ mounted = "yes"
    /\ calls < MaxCalls
    /\ calls' = calls + 1
    /\ DisconnectBody
    /\ event' = Event("disconnect", 0, 0)
    /\ UNCHANGED mounted
    /\ UNCHANGED <<relayVars, uiVars>>

\* a reconnect timer fires and calls connect(): the one the ref holds, or
\* one it held before
ReconnectTimer(held, ctorThrows) ==
    /\ IF held
       THEN /\ reconnectTimeoutRef = "pending"
            /\ reconnectTimeoutRef' = "stale"
            /\ UNCHANGED orphanTimers
       ELSE /\ orphanTimers > 0
            /\ orphanTimers' = orphanTimers - 1
            /\ UNCHANGED reconnectTimeoutRef
    /\ ConnectBody(ctorThrows)
    /\ event' = Event("timer", 0, 0)
    /\ UNCHANGED <<mounted, reconnectAttemptsRef, isConnected, calls, stopped,
                   everOpen>>
    /\ UNCHANGED <<relayVars, uiVars>>

\* onopen of socket i
OnOpen(i) ==
    /\ sockets[i] = "CONNECTING"
    /\ sockets' = [sockets EXCEPT ![i] = "OPEN"]
    /\ isConnected' = TRUE
    /\ connectionStatus' = "connected"
    /\ reconnectAttemptsRef' = 0
    /\ error' = "null"
    /\ event' = Event("open", i, 0)
    /\ everOpen' = TRUE
    /\ UNCHANGED <<mounted, wsRef, reconnectTimeoutRef, orphanTimers, calls,
                   stopped>>
    /\ UNCHANGED <<relayVars, uiVars>>

\* the codes a close event may carry: a connection that never opened fails
\* (1006), also when close() was called on it; an open one is closed by the
\* server (1000, 1001) or lost (1006); one that is closing ends with the code
\* passed to close() or is lost
CloseCodes(st) ==
    CASE st \in {"CONNECTING", "FAILING"} -> {1006}
      [] st = "OPEN" -> {1000, 1001, 1006}
      [] st = "CLOSING" -> {1000, 1006}
      [] OTHER -> {}

\* faulty variant: every abnormal close is followed by another attempt
ShouldReconnectForever(code, attempts) == code # 1000

\* faulty variant: one attempt too many
ShouldReconnectOnceMore(code, attempts) ==
    code # 1000 /\ attempts <= maxReconnectAttempts

\* event.code !== 1000 && reconnectAttemptsRef.current < maxReconnectAttempts
ShouldReconnect(code, attempts) ==
    code # 1000 /\ attempts < maxReconnectAttempts

\* the end of socket i: when the connection failed, onerror first, then
\* onclose, which may set the reconnect timer
OnClose(i, code) ==
    /\ code \in CloseCodes(sockets[i])
    /\ sockets' = [sockets EXCEPT ![i] = "CLOSED"]
    /\ isConnected' = FALSE
    /\ connectionStatus' = "disconnected"
    /\ IF ShouldReconnect(code, reconnectAttemptsRef)
       THEN /\ reconnectAttemptsRef' = reconnectAttemptsRef + 1
            /\ orphanTimers' = IF reconnectTimeoutRef = "pending"
                               THEN orphanTimers + 1 ELSE orphanTimers
            /\ reconnectTimeoutRef' = "pending"
            /\ error' = IF code = 1006 THEN "Failed to connect to OSC bridge"
                        ELSE error
       ELSE /\ error' = IF reconnectAttemptsRef >= maxReconnectAttempts
                        THEN "Max reconnection attempts reached"
                        ELSE IF code = 1006
                        THEN "Failed to connect to OSC bridge"
                        ELSE error
            /\ UNCHANGED <<reconnectAttemptsRef, orphanTimers,
                           reconnectTimeoutRef>>
    /\ event' = Event("close", i, code)
    /\ UNCHANGED <<mounted, wsRef, calls, stopped, everOpen>>
    /\ UNCHANGED <<relayVars, uiVars>>

\* a value JSON cannot represent: JSON.stringify throws a TypeError on it
BigInt(n) == <<"bigint", n>>

\* JSON.stringify of one element of an array: undefined is written as null
StringifyElement(v) == IF v = Undefined THEN Null ELSE v

\* JSON.stringify({ address, args }): the text of an object with both
\* properties, unless an argument cannot be serialized
JSONStringify(address, args) ==
    IF \E i \in 1 .. Len(args) : args[i][1] = "bigint"
    THEN Throw("TypeError")
    ELSE Ok(<<"json",
              Obj(Str(address),
                  Arr([i \in 1 .. Len(args) |-> StringifyElement(args[i])]),
                  Undefined)>>)

\* faulty variant: any current socket will do
CanSendAnySocket(connected, ref, socks) == ref # 0

\* the negation of the guard of send():
\* !isConnected || !wsRef.current || wsRef.current.readyState !== OPEN
CanSend(connected, ref, socks) ==
    connected /\ ref # 0 /\ ReadyState(socks[ref]) = "OPEN"

\* the addresses and the rest arguments the component passes to send()
SendAddresses == {<<"/", "a">>}
SendArgs == {<<>>, <<Num(1), Undefined>>, <<BigInt(1)>>}

\* send(address, ...args), called by the component; the event records the
\* current socket, the text handed to its send method if any, and as its
\* code 1 when send() returned true and 0 when it returned false
send(address, args) ==
    LET text == JSONStringify(address, args)
        sends == CanSend(isConnected, wsRef, sockets) /\ IsOk(text)
    IN /\ mounted = "yes"
       /\ event' = IF sends
                    THEN [Event("send", wsRef, 1) EXCEPT !.text = text[2]]
                    ELSE Event("send", wsRef, 0)
       /\ UNCHANGED <<mounted, sockets, wsRef, reconnectTimeoutRef,
                      orphanTimers, reconnectAttemptsRef, isConnected,
                      connectionStatus, error, calls, stopped, everOpen>>
       /\ UNCHANGED <<relayVars, uiVars>>

\* the hook: its effect, the calls of the component, the timers and the
\* events of its sockets
NextHook ==
    \/ \E autoConnect, ctorThrows \in BOOLEAN : Mount(autoConnect, ctorThrows)
    \/ Unmount
    \/ \E ctorThrows \in BOOLEAN : connect(ctorThrows)
    \/ disconnect
    \/ \E held, ctorThrows \in BOOLEAN : ReconnectTimer(held, ctorThrows)
    \/ \E i \in 1 .. Len(sockets) : OnOpen(i)
    \/ \E i \in 1 .. Len(sockets) : \E code \in CloseCodes(sockets[i]) :
          OnClose(i, code)
    \/ \E address \in SendAddresses, args \in SendArgs : send(address, args)

SpecHook == Init /\ [][NextHook]_vars

\* ------------------------------------- XYControl and MyKnobHeadless

\* Math.max(lo, Math.min(hi, v))
Clamp(v, lo, hi) == IF v < lo THEN lo ELSE IF v > hi THEN hi ELSE v

\* getPosFromClient: the pad covers the grid 0 .. MaxPos in both directions,
\* the y axis points up
GetPosFromClient(cx, cy) ==
    <<Clamp(cx, 0, MaxPos), Clamp(MaxPos - cy, 0, MaxPos)>>

\* clamp(startValueRef.current + deltaValue, valueMin, valueMax), with
\* deltaY = startYRef.current - e.clientY and one step of value for a pixel
KnobValue(startValue, startY, clientY) ==
    Clamp(startValue + (startY - clientY), 0, MaxPos)

\* the pointers, and the coordinates of a pointer event: a point (c, c) on
\* the grid or just beyond its edge
Pointers == {1, 2}
ClientCoords == 0 .. MaxPos + 1

\* the values the value prop of a controlled component takes
PropValues == IF control = XY THEN {<<0, 0>>, <<MaxPos, MaxPos>>} ELSE {0, MaxPos}

\* one call of a callback of the component
Call(cb, entry, by) ==
    [cb |-> cb, value |-> entry.value, n |-> entry.n, by |-> by]

\* faulty variant: a position that is pending is not replaced
KeepOlder(pending, entry) == IF pending = <<>> THEN <<entry>> ELSE pending

\* pendingRef.current = p
Overwrite(pending, entry) == <<entry>>

\* schedule(p), counting from k calls so far
Schedule(p, k) ==
    /\ pendingRef' = Overwrite(pendingRef, [value |-> p, n |-> k + 1])
    /\ rafRef' = TRUE
    /\ scheduled' = k + 1

\* onPointerDown: a drag begins, or goes on with this pointer
onPointerDown(id, c) ==
    LET k == IF isDraggingRef THEN scheduled ELSE 0
    IN /\ dragMounted
       /\ k < MaxMoves
       /\ IF isDraggingRef
          THEN UNCHANGED <<drags, dragLog, endSeen>>
          ELSE /\ drags < MaxDrags
               /\ drags' = drags + 1
               /\ dragLog' = <<>>
               /\ endSeen' = {}
       /\ isDraggingRef' = TRUE
       /\ activePointerIdRef' = id
       /\ IF control = XY
          THEN /\ displayPos' = GetPosFromClient(c, c)
               /\ Schedule(GetPosFromClient(c, c), k)
               /\ lastPos' = GetPosFromClient(c, c)
               /\ UNCHANGED <<startValueRef, startYRef>>
          ELSE /\ startValueRef' = displayPos
               /\ startYRef' = c
               /\ scheduled' = k
               /\ lastPos' = displayPos
               /\ UNCHANGED <<displayPos, pendingRef, rafRef>>
       /\ UNCHANGED <<control, dragMounted>>
       /\ UNCHANGED <<relayVars, hookVars, textVars, promptVars, colorVars>>

\* onPointerMove: ignored unless the active pointer of a drag moves
onPointerMove(id, c) ==
    LET p == IF control = XY THEN GetPosFromClient(c, c)
             ELSE KnobValue(startValueRef, startYRef, c)
    IN /\ dragMounted
       /\ isDraggingRef
       /\ id = activePointerIdRef
       /\ scheduled < MaxMoves
       /\ displayPos' = p
       /\ Schedule(p, scheduled)
       /\ lastPos' = p
       /\ UNCHANGED <<control, dragMounted, isDraggingRef, activePointerIdRef,
                      startValueRef, startYRef, dragLog, drags, endSeen>>
       /\ UNCHANGED <<relayVars, hookVars, textVars, promptVars, colorVars>>

\* pump: the animation frame that was requested
pump ==
    /\ dragMounted
    /\ rafRef
    /\ rafRef' = FALSE
    /\ dragLog' = IF pendingRef # <<>>
                  THEN Append(dragLog, Call("onChange", pendingRef[1], "pump"))
                  ELSE dragLog
    /\ pendingRef' = <<>>
    /\ UNCHANGED <<control, dragMounted, isDraggingRef, activePointerIdRef,
                   startValueRef, startYRef, displayPos, scheduled, lastPos,
                   drags, endSeen>>
    /\ UNCHANGED <<relayVars, hookVars, textVars, promptVars, colorVars>>

\* the events whose handler is endDrag
EndKinds == {"pointerup", "pointercancel", "lostpointercapture"}

\* faulty variant: endDrag runs whether or not a drag is going on
EndDragRunsAlways(dragging) == TRUE

\* the negation of: if (!isDraggingRef.current) return
EndDragRuns(dragging) == dragging

\* endDrag, for an end event of a kind not yet delivered in this drag
endDrag(kind) ==
    LET final == IF pendingRef # <<>> THEN pendingRef[1]
                 ELSE [value |-> displayPos, n |-> scheduled]
    IN /\ dragMounted
       /\ drags > 0
       /\ kind \notin endSeen
       /\ endSeen' = endSeen \cup {kind}
       /\ IF EndDragRuns(isDraggingRef)
          THEN /\ isDraggingRef' = FALSE
               /\ activePointerIdRef' = 0
               /\ rafRef' = FALSE
               /\ dragLog' = dragLog \o <<Call("onChange", final, "endDrag"),
                                          Call("onChangeEnd", final, "endDrag")>>
               /\ pendingRef' = <<>>
          ELSE UNCHANGED <<isDraggingRef, activePointerIdRef, rafRef, dragLog,
                           pendingRef>>
       /\ UNCHANGED <<control, dragMounted, startValueRef, startYRef,
                      displayPos, scheduled, lastPos, drags>>
       /\ UNCHANGED <<relayVars, hookVars, textVars, promptVars, colorVars>>

\* the effect that follows a controlled value: skipped during a drag
SyncValue(v) ==
    /\ dragMounted
    /\ ~isDraggingRef
    /\ v # displayPos
    /\ displayPos' = v
    /\ UNCHANGED <<control, dragMounted, isDraggingRef, activePointerIdRef,
                   startValueRef, startYRef, pendingRef, rafRef, scheduled,
                   dragLog, lastPos, drags, endSeen>>
    /\ UNCHANGED <<relayVars, hookVars, textVars, promptVars, colorVars>>

\* the cleanup on unmount: cancelAnimationFrame
DragUnmount ==
    /\ dragMounted
    /\ dragMounted' = FALSE
    /\ rafRef' = FALSE
    /\ UNCHANGED <<control, isDraggingRef, activePointerIdRef, startValueRef,
                   startYRef, pendingRef, displayPos, scheduled, dragLog,
                   lastPos, drags, endSeen>>
    /\ UNCHANGED <<relayVars, hookVars, textVars, promptVars, colorVars>>

\* a drag control and the events of its element
NextDrag ==
    \/ \E id \in Pointers, c \in ClientCoords : onPointerDown(id, c)
    \/ \E id \in Pointers, c \in ClientCoords : onPointerMove(id, c)
    \/ pump
    \/ \E kind \in EndKinds : endDrag(kind)
    \/ \E v \in PropValues : SyncValue(v)
    \/ DragUnmount

InitDrag ==
    /\ RelayInit(FewEnvs)
    /\ HookInit
    /\ DragInit({XY, Knob})
    /\ TextInit({FALSE})
    /\ PromptInit
    /\ ColorInit

SpecDrag == InitDrag /\ [][NextDrag]_vars

\* ------------------------------------------------ DebouncedTextInput

NL == "\n"

\* the texts a textarea may hold
Texts == UNION {[1 .. k -> {"a", NL}] : k \in 0 .. MaxText}

IsNotNL(c) == c # NL

\* value.replace(/\n/g, '')
StripNewlines(t) == SelectSeq(t, IsNotNL)

\* faulty variant: the timer is left running
ClearTimeoutLeaves(timers, id) == timers

\* clearTimeout(id): nothing happens when no such timer is pending
ClearTimeout(timers, id) == {t \in timers : t.id # id}

\* the timers, the ref and the ids issued
TimerState(timers, ref, ids) == [timers |-> timers, ref |-> ref, ids |-> ids]

\* debouncedOnChange(newValue): clear the timer the ref holds, set a new one
DebouncedOnChange(st, newValue) ==
    LET cleared == IF st.ref # 0 THEN ClearTimeout(st.timers, st.ref)
                   ELSE st.timers
    IN TimerState(cleared \cup {[id |-> st.ids + 1, value |-> newValue]},
                  st.ids + 1, st.ids + 1)

\* handleInput: in single-line mode newlines are removed from the textarea,
\* and when there were any the cleaned text is debounced
HandleInput(st, t) ==
    IF ~multiline /\ StripNewlines(t) # t
    THEN [st |-> DebouncedOnChange(st, StripNewlines(t)),
          target |-> StripNewlines(t)]
    ELSE [st |-> st, target |-> t]

\* one input event with the text t in the textarea: React calls onInput
\* (handleInput), then onChange (handleChange), which reads the textarea
Input(t) ==
    LET st0 == TimerState(textTimers, timeoutRef, timerIds)
        afterInput == HandleInput(st0, t)
        newValue == afterInput.target
        st == DebouncedOnChange(afterInput.st, newValue)
    IN /\ textMounted
       /\ edits < MaxEdits
       /\ t # internalValue
       /\ edits' = edits + 1
       /\ internalValue' = newValue
       /\ lastEdit' = newValue
       /\ textTimers' = st.timers
       /\ timeoutRef' = st.ref
       /\ timerIds' = st.ids
       /\ UNCHANGED <<multiline, textMounted, valueProp, textLog>>
       /\ UNCHANGED <<relayVars, hookVars, dragVars, promptVars, colorVars>>

\* a debounce timer fires: onChange(newValue)
Timeout(id) ==
    /\ \E t \in textTimers :
          /\ t.id = id
          /\ textLog' = Append(textLog, [value |-> t.value, by |-> "timer"])
          /\ textTimers' = textTimers \ {t}
    /\ UNCHANGED <<multiline, textMounted, valueProp, internalValue,
                   timeoutRef, timerIds, lastEdit, edits>>
    /\ UNCHANGED <<relayVars, hookVars, dragVars, promptVars, colorVars>>

\* handleKeyDown for Enter without Shift in single-line mode; any other key,
\* and any key in multiline mode, changes nothing
HandleKeyDown ==
    /\ textMounted
    /\ ~multiline
    /\ edits < MaxEdits
    /\ edits' = edits + 1
    /\ textTimers' = IF timeoutRef # 0 THEN ClearTimeout(textTimers, timeoutRef)
                     ELSE textTimers
    /\ timeoutRef' = 0
    /\ textLog' = Append(textLog, [value |-> internalValue, by |-> "enter"])
    /\ UNCHANGED <<multiline, textMounted, valueProp, internalValue, timerIds,
                   lastEdit>>
    /\ UNCHANGED <<relayVars, hookVars, dragVars, promptVars, colorVars>>

\* the parent passes another value: the effect copies it to internalValue
SyncText(v) ==
    /\ textMounted
    /\ v # valueProp
    /\ valueProp' = v
    /\ internalValue' = v
    /\ UNCHANGED <<multiline, textMounted, timeoutRef, textTimers, timerIds,
                   textLog, lastEdit, edits>>
    /\ UNCHANGED <<relayVars, hookVars, dragVars, promptVars, colorVars>>

\* the cleanup on unmount: clearTimeout
TextUnmount ==
    /\ textMounted
    /\ textMounted' = FALSE
    /\ textTimers' = IF timeoutRef # 0 THEN ClearTimeout(textTimers, timeoutRef)
                     ELSE textTimers
    /\ UNCHANGED <<multiline, valueProp, internalValue, timeoutRef, timerIds,
                   textLog, lastEdit, edits>>
    /\ UNCHANGED <<relayVars, hookVars, dragVars, promptVars, colorVars>>

\* a text input, its user, its parent and its timers
NextText ==
    \/ \E t \in Texts : Input(t)
    \/ \E id \in 1 .. timerIds : Timeout(id)
    \/ HandleKeyDown
    \/ \E v \in {<<>>, <<"a">>} : SyncText(v)
    \/ TextUnmount

InitText ==
    /\ RelayInit(FewEnvs)
    /\ HookInit
    /\ DragInit({XY})
    /\ TextInit(BOOLEAN)
    /\ PromptInit
    /\ ColorInit

SpecText == InitText /\ [][NextText]_vars

\* -------------------------------------------------------- PromptView

\* prompt.trim(), for prompts of letters and spaces
RECURSIVE Trim(_)
Trim(t) ==
    IF t = <<>> THEN t
    ELSE IF Head(t) = " " THEN Trim(Tail(t))
    ELSE IF t[Len(t)] = " " THEN Trim(SubSeq(t, 1, Len(t) - 1))
    ELSE t

\* list.includes(x)
Includes(list, x) == \E i \in 1 .. Len(list) : list[i] = x

\* the prompts a user types
Prompts == {<<>>, <<" ">>, <<"a">>, <<" ", "a">>, <<"b">>}

\* prompt.trim() && !promptHistory.includes(prompt.trim()), where
\* promptHistory is the one of the render that made the callback
ShouldAdd(seen, prompt) == Trim(prompt) # <<>> /\ ~Includes(seen, Trim(prompt))

\* addToHistory(prompt), as made by a render that saw the history seen
AddToHistory(history, seen, prompt) ==
    IF ShouldAdd(seen, prompt) THEN <<Trim(prompt)>> \o history ELSE history

\* the user types a prompt into one of the two inputs: its debounce timer
\* is set, to call the handler that the current render passed down
PromptTyped(side, prompt) ==
    /\ typed < MaxPrompts
    /\ typed' = typed + 1
    /\ pendingPrompt' = [pendingPrompt EXCEPT
                             ![side] = <<[prompt |-> prompt,
                                          seen |-> promptHistory]>>]
    /\ UNCHANGED <<promptHistory, leftPrompt, rightPrompt>>
    /\ UNCHANGED <<relayVars, hookVars, dragVars, textVars, colorVars>>

\* handleLeftPromptChange / handleRightPromptChange, called by the timer of
\* the input
HandlePromptChange(side) ==
    /\ pendingPrompt[side] # <<>>
    /\ pendingPrompt' = [pendingPrompt EXCEPT ![side] = <<>>]
    /\ leftPrompt' = IF side = "left" THEN pendingPrompt[side][1].prompt
                     ELSE leftPrompt
    /\ rightPrompt' = IF side = "right" THEN pendingPrompt[side][1].prompt
                      ELSE rightPrompt
    /\ promptHistory' = AddToHistory(promptHistory,
                                     pendingPrompt[side][1].seen,
                                     pendingPrompt[side][1].prompt)
    /\ UNCHANGED typed
    /\ UNCHANGED <<relayVars, hookVars, dragVars, textVars, colorVars>>

\* handleSelectLeftFromHistory / handleSelectRightFromHistory
HandleSelectFromHistory(side, i) ==
    /\ i \in 1 .. Len(promptHistory)
    /\ leftPrompt' = IF side = "left" THEN promptHistory[i] ELSE leftPrompt
    /\ rightPrompt' = IF side = "right" THEN promptHistory[i] ELSE rightPrompt
    /\ leftPrompt' # leftPrompt \/ rightPrompt' # rightPrompt
    /\ UNCHANGED <<promptHistory, pendingPrompt, typed>>
    /\ UNCHANGED <<relayVars, hookVars, dragVars, textVars, colorVars>>

\* the prompt view, its two inputs and its history list
NextPrompt ==
    \/ \E side \in Sides, prompt \in Prompts : PromptTyped(side, prompt)
    \/ \E side \in Sides : HandlePromptChange(side)
    \/ \E side \in Sides, i \in 1 .. Len(promptHistory) :
          HandleSelectFromHistory(side, i)

SpecPrompt == Init /\ [][NextPrompt]_vars

\* ------------------------------------------------------ ColorHistory

\* the colours of the lights
Colors == {Red, Blue}

\* the number a string of decimal digits denotes
RECURSIVE DigitsToNum(_)
DigitsToNum(ds) ==
    IF ds = <<>> THEN 0
    ELSE LET d == CHOOSE k \in 0 .. 9 : NumToString(k) = <<ds[Len(ds)]>>
         IN 10 * DigitsToNum(SubSeq(ds, 1, Len(ds) - 1)) + d

\* JSON.stringify of a list of pairs: the members of each pair in the order
\* of their creation, the strings as they are, the number in decimal digits
StringifyHistory(history) ==
    [i \in 1 .. Len(history) |->
        <<<<"id", history[i].id>>,
          <<"leftColor", history[i].leftColor>>,
          <<"rightColor", history[i].rightColor>>,
          <<"timestamp", NumToString(history[i].timestamp)>>>>]

\* JSON.parse of such a text
ParseHistory(text) ==
    [i \in 1 .. Len(text) |->
        [id |-> text[i][1][2],
         leftColor |-> text[i][2][2],
         rightColor |-> text[i][3][2],
         timestamp |-> DigitsToNum(text[i][4][2])]]

\* localStorage.setItem(STORAGE_KEY, text) inside try/catch: the item is
\* replaced, unless the browser refuses (quota, storage disabled)
SaveToStorage(history, refused) ==
    IF refused THEN storage ELSE <<StringifyHistory(history)>>

\* the effect of the mount: the stored list, when there is one, becomes the
\* history
ColorMount ==
    /\ colorPhase = "rendered"
    /\ colorPhase' = "loaded"
    /\ colorHistory' = IF storage # <<>> THEN ParseHistory(storage[1])
                       ELSE colorHistory
    /\ colorEvent' = ColorEvent("load", 0, FALSE)
    /\ UNCHANGED <<storage, leftColor, rightColor, clock>>
    /\ UNCHANGED <<relayVars, hookVars, dragVars, textVars, promptVars>>

\* handleSave: Date.now() is read twice, and has advanced by d1 since its
\* last reading and by d2 between the two
handleSave(d1, d2, refused) ==
    /\ colorPhase = "loaded"
    /\ Len(colorHistory) < MaxPairs
    /\ clock + d1 + d2 <= MaxClock
    /\ LET newPair == [id |-> NumToString(clock + d1),
                       leftColor |-> leftColor,
                       rightColor |-> rightColor,
                       timestamp |-> clock + d1 + d2]
           newHistory == <<newPair>> \o colorHistory
       IN /\ colorHistory' = newHistory
          /\ storage' = SaveToStorage(newHistory, refused)
    /\ clock' = clock + d1 + d2
    /\ colorEvent' = ColorEvent("save", 0, ~refused)
    /\ UNCHANGED <<leftColor, rightColor, colorPhase>>
    /\ UNCHANGED <<relayVars, hookVars, dragVars, textVars, promptVars>>

\* handleDelete(pair.id), from the delete button of row i
handleDelete(i, refused) ==
    /\ colorPhase = "loaded"
    /\ i \in 1 .. Len(colorHistory)
    /\ LET Keep(pair) == pair.id # colorHistory[i].id
           newHistory == SelectSeq(colorHistory, Keep)
       IN /\ colorHistory' = newHistory
          /\ storage' = SaveToStorage(newHistory, refused)
    /\ colorEvent' = ColorEvent("delete", i, ~refused)
    /\ UNCHANGED <<leftColor, rightColor, clock, colorPhase>>
    /\ UNCHANGED <<relayVars, hookVars, dragVars, textVars, promptVars>>

\* handleRecall / handleRecallFlipped of row i: recallColors of the store
handleRecall(i, flipped) ==
    /\ colorPhase = "loaded"
    /\ i \in 1 .. Len(colorHistory)
    /\ leftColor' = IF flipped THEN colorHistory[i].rightColor
                    ELSE colorHistory[i].leftColor
    /\ rightColor' = IF flipped THEN colorHistory[i].leftColor
                     ELSE colorHistory[i].rightColor
    /\ colorEvent' = ColorEvent("recall", i, FALSE)
    /\ <<leftColor', rightColor', colorEvent'>>
          # <<leftColor, rightColor, colorEvent>>
    /\ UNCHANGED <<colorHistory, storage, clock, colorPhase>>
    /\ UNCHANGED <<relayVars, hookVars, dragVars, textVars, promptVars>>

\* setColors of the store, from the colour pickers
setColors(left, right) ==
    /\ <<left, right>> # <<leftColor, rightColor>>
    /\ leftColor' = left
    /\ rightColor' = right
    /\ colorEvent' = ColorEvent("colors", 0, FALSE)
    /\ UNCHANGED <<colorHistory, storage, clock, colorPhase>>
    /\ UNCHANGED <<relayVars, hookVars, dragVars, textVars, promptVars>>

\* the component unmounts and is rendered anew: its state starts over, the
\* store and localStorage stay
ColorUnmount ==
    /\ colorPhase = "loaded"
    /\ colorPhase' = "rendered"
    /\ colorHistory' = <<>>
    /\ colorEvent' = ColorEvent("none", 0, FALSE)
    /\ UNCHANGED <<storage, leftColor, rightColor, clock>>
    /\ UNCHANGED <<relayVars, hookVars, dragVars, textVars, promptVars>>

\* the colour history and the store it reads
NextColor ==
    \/ ColorMount
    \/ \E d1 \in 0 .. 1, d2 \in 0 .. 1, refused \in BOOLEAN :
          handleSave(d1, d2, refused)
    \/ \E i \in 1 .. Len(colorHistory), refused \in BOOLEAN :
          handleDelete(i, refused)
    \/ \E i \in 1 .. Len(colorHistory), flipped \in BOOLEAN :
          handleRecall(i, flipped)
    \/ \E left \in Colors, right \in Colors : setColors(left, right)
    \/ ColorUnmount

SpecColor == Init /\ [][NextColor]_vars

\* ------------------------------------------------------------ claims

\* the payload is the JSON text of an object whose address is a string that
\* starts with "/"
AddressStartsWithSlash(data) ==
    /\ data[1] = "json"
    /\ data[2][1] = "object"
    /\ data[2][2].address[1] = "string"
    /\ data[2][2].address[2] # <<>>
    /\ Head(data[2][2].address[2]) = "/"

\* outcomes of a message that passed the address validation
Accepted == {"argsTypeError", "notReady", "encodeError", "sent"}

\* outcomes of a message that was dropped for what it is
Garbage ==
    {"parseError", "addressTypeError", "invalidAddress", "argsTypeError",
     "encodeError"}

\* the datagrams the message handled last caused
LastDatagrams ==
    {i \in 1 .. Len(udpSent) :
        udpSent[i].src = <<"ws", last.conn, Len(rx[last.conn])>>}

\* C1: a message that parses as JSON passes the address validation if and only
\* if its address starts with "/"; any other message causes no UDP send.
C1_AddressValidation ==
    (last.data[1] = "json") =>
        /\ (last.outcome \in Accepted) <=> AddressStartsWithSlash(last.data)
        /\ ~AddressStartsWithSlash(last.data) => LastDatagrams = {}

C1_Witness ==
    /\ AddressStartsWithSlash(last.data)
    /\ last.outcome = "sent"
    /\ LastDatagrams # {}

\* the type-mapping rule as the claim states it, for the scalars
ClaimedScalar(v) ==
    CASE v[1] = "number" -> OscArg("f", v[2])
      [] v[1] = "string" -> OscArg("s", v[2])
      [] v[1] = "boolean" -> OscArg("i", IF v[2] THEN 1 ELSE 0)

\* the list of args of the message handled last, when it is a list
LastList == last.data[2][2].args[2]
LastHasList ==
    AddressStartsWithSlash(last.data) /\ last.data[2][2].args[1] = "array"

\* the arguments of the OSC message the message handled last was sent as
LastSentArgs == udpSent[CHOOSE i \in LastDatagrams : TRUE].buf[2].args

\* C2: every element of args, whatever its JSON type, gives exactly one OSC
\* argument: number to f, string to s, boolean to i (1 or 0), anything else
\* to s; no element makes the conversion fail.
C2_TypeMapTotal ==
    LastHasList =>
        /\ last.outcome # "argsTypeError"
        /\ last.outcome = "sent" =>
              /\ Len(LastSentArgs) = Len(LastList)
              /\ \A i \in 1 .. Len(LastList) :
                    IF LastList[i][1] \in {"number", "string", "boolean"}
                    THEN LastSentArgs[i] = ClaimedScalar(LastList[i])
                    ELSE LastSentArgs[i].type = "s"

\* the message handled last, with its args wrapped as a one-element list
LastWrapped ==
    Obj(last.data[2][2].address, Arr(<<last.data[2][2].args>>), Undefined)

\* C3: args: v, for a scalar v, gives the OSC argument list of args: [v],
\* which holds the one argument v maps to; absent args give the empty list;
\* a list is used as it is.
C3_ScalarWrapped ==
    (AddressStartsWithSlash(last.data) /\ last.outcome = "sent") =>
        LET a == last.data[2][2].args
        IN /\ a[1] \in {"number", "string", "boolean"} =>
                 /\ LastSentArgs = ProcessArgs(LastWrapped)[2]
                 /\ LastSentArgs = <<ClaimedScalar(a)>>
           /\ a = Undefined => LastSentArgs = <<>>
           /\ a[1] = "array" => Len(LastSentArgs) = Len(a[2])

\* the type-mapping rule as the claim states it, for any element
ClaimedArg(v) ==
    IF v[1] \in {"number", "string", "boolean"} THEN ClaimedScalar(v)
    ELSE OscArg("s", ToStringJS(v)[2])

\* C4: a message with a list of n elements that is sent is sent to the
\* configured destination as one OSC message with its address unchanged and
\* n arguments, the i-th the type-mapped i-th element.
C4_ArgsInOrder ==
    (LastHasList /\ last.outcome = "sent") =>
        /\ Cardinality(LastDatagrams) = 1
        /\ \A i \in LastDatagrams :
              /\ udpSent[i].buf[1] = "osc"
              /\ udpSent[i].buf[2].address = last.data[2][2].address[2]
              /\ Len(udpSent[i].buf[2].args) = Len(LastList)
              /\ \A j \in 1 .. Len(LastList) :
                    udpSent[i].buf[2].args[j] = ClaimedArg(LastList[j])

C4_Witness ==
    /\ LastHasList
    /\ last.outcome = "sent"
    /\ Len(LastList) = MaxArgs
    /\ LastList[1][1] = "boolean"
    /\ LastList[MaxArgs][1] = "number"

\* the datagrams a message of a session caused
IsWs(d) == d.src[1] = "ws"
FromMessage(c, k) ==
    {i \in 1 .. Len(udpSent) : udpSent[i].src = <<"ws", c, k>>}

\* C5, as claimed: every datagram submitted to a UDP send call was caused by
\* exactly one validated inbound message, and no two by the same message.
C5_EveryDatagramFromAMessage ==
    \A i \in 1 .. Len(AllSent) :
        /\ IsWs(AllSent[i])
        /\ rx[AllSent[i].src[2]][AllSent[i].src[3]] = "sent"
        /\ FromMessage(AllSent[i].src[2], AllSent[i].src[3]) = {i}

\* C5, amended: apart from the startup self-test (at most one /test OSC
\* message on udpSocket and at most one UDP_TEST probe on a socket of its
\* own), every datagram was caused by exactly one validated inbound message,
\* and every message that was sent caused exactly one datagram.
C5_OneToOne ==
    /\ \A i \in 1 .. Len(AllSent) :
          LET d == AllSent[i]
          IN CASE IsWs(d) ->
                    /\ d.sock = "udpSocket"
                    /\ d.src[2] \in Conns
                    /\ d.src[3] \in 1 .. Len(rx[d.src[2]])
                    /\ rx[d.src[2]][d.src[3]] = "sent"
                    /\ FromMessage(d.src[2], d.src[3]) = {i}
               [] d.src[1] = "selftest" ->
                    /\ d.sock = "udpSocket"
                    /\ d.buf = <<"osc", TestMessage>>
               [] OTHER ->
                    /\ d.sock = "testSocket"
                    /\ d.buf = <<"raw", "UDP_TEST">>
    /\ Cardinality({i \in 1 .. Len(AllSent) : AllSent[i].src[1] = "selftest"}) <= 1
    /\ Cardinality({i \in 1 .. Len(AllSent) : AllSent[i].src[1] = "probe"}) <= 1
    /\ \A c \in Conns : \A k \in 1 .. Len(rx[c]) :
          rx[c][k] = "sent" => Cardinality(FromMessage(c, k)) = 1

C5_Witness ==
    /\ \E i \in 1 .. Len(AllSent) : IsWs(AllSent[i])
    /\ \E i \in 1 .. Len(AllSent) : AllSent[i].src[1] = "selftest"
    /\ \E i \in 1 .. Len(AllSent) : AllSent[i].src[1] = "probe"

\* C6: the datagrams of the messages of one session are submitted in the
\* order in which the messages arrived.
C6_OrderPreserved ==
    \A i, j \in 1 .. Len(udpSent) :
        (/\ i < j
         /\ IsWs(udpSent[i])
         /\ IsWs(udpSent[j])
         /\ udpSent[i].src[2] = udpSent[j].src[2])
            => udpSent[i].src[3] < udpSent[j].src[3]

C6_Witness ==
    \E i, j \in 1 .. Len(udpSent) :
        /\ i < j
        /\ IsWs(udpSent[i])
        /\ IsWs(udpSent[j])
        /\ udpSent[i].src[2] = udpSent[j].src[2]

\* C7: while udpSocketReady is false nothing is submitted to a UDP send and
\* no handler throws; a message handled then is dropped, and no datagram is
\* ever submitted for it later.
C7_ReadinessGate ==
    /\ ~udpSocketReady => udpSent = <<>>
    /\ proc # "crashed"
    /\ (AddressStartsWithSlash(last.data) /\ ~last.ready) =>
          last.outcome = "notReady"
    /\ \A c \in Conns : \A k \in 1 .. Len(rx[c]) :
          rx[c][k] = "notReady" => FromMessage(c, k) = {}

C7_Witness ==
    \E c \in Conns :
        /\ udpSocketReady
        /\ Len(rx[c]) = 2
        /\ rx[c][1] = "notReady"
        /\ rx[c][2] = "sent"
        /\ FromMessage(c, 2) # {}

\* C8: a payload that is not JSON, has no valid address or cannot be encoded
\* is logged and dropped: the session stays open, the process keeps running,
\* and nothing else of the relay changes; a valid message that follows it on
\* the same session, with the UDP socket ready and the codec working, is
\* submitted to exactly one UDP send.
C8_NoCrashOnGarbage ==
    [][\A c \in Conns :
          (rx'[c] # rx[c]) =>
             /\ (last'.outcome \in Garbage) =>
                   /\ last'.log # "none"
                   /\ proc' = "running"
                   /\ conn' = conn
                   /\ conn'[c] = "open"
                   /\ UNCHANGED <<cfgHost, cfgPort, exitCode, udpState,
                                  udpSocketReady, wssState, wsOut, udpSent,
                                  cbPending, selfTest, tcpProbe, udpProbe>>
             /\ (/\ rx[c] # <<>>
                 /\ rx[c][Len(rx[c])] = "dropped"
                 /\ AddressStartsWithSlash(last'.data)
                 /\ udpSocketReady
                 /\ last'.outcome # "encodeError") =>
                   /\ last'.outcome = "sent"
                   /\ Len(udpSent') = Len(udpSent) + 1
                   /\ Cardinality({i \in 1 .. Len(udpSent') :
                         udpSent'[i].src = <<"ws", c, Len(rx'[c])>>}) = 1]_vars

C8_Witness ==
    \E c \in Conns :
        /\ proc = "running"
        /\ conn[c] = "open"
        /\ Len(rx[c]) = 2
        /\ rx[c][1] = "dropped"
        /\ rx[c][2] = "sent"
        /\ last.conn = c
        /\ Cardinality(FromMessage(c, 2)) = 1

\* C9: a session that was accepted has been sent exactly one message, the
\* status greeting with the configured destination host and port, whether or
\* not the UDP socket was ready; a session not yet accepted has been sent
\* nothing.
C9_OneGreeting ==
    \A c \in Conns :
        IF conn[c] = "none" THEN wsOut[c] = <<>>
        ELSE wsOut[c] = <<[type |-> "status",
                           message |-> "Connected to OSC bridge",
                           touchdesignerHost |-> cfgHost,
                           touchdesignerPort |-> cfgPort]>>

C9_Witness ==
    \E c \in Conns :
        /\ conn[c] = "open"
        /\ ~udpSocketReady
        /\ cfgPort # DefaultPort
        /\ Len(wsOut[c]) = 1
        /\ Len(rx[c]) = MaxMsgs

\* C10: once a session is accepted, no step sends anything to its client.
C10_NoReply ==
    [][\A c \in Conns : conn[c] # "none" => wsOut'[c] = wsOut[c]]_vars

C10_Witness ==
    \E c \in Conns :
        /\ Len(rx[c]) = 2
        /\ rx[c][1] = "dropped"
        /\ rx[c][2] = "sent"
        /\ cbPending = 0
        /\ Len(wsOut[c]) = 1

\* C11: no inbound message causes more than one call of udpSocket.send: a
\* send callback, whatever error it is called with, submits nothing again and
\* sends nothing to a client, and every message has at most one datagram.
C11_NoRetry ==
    /\ [](\A c \in Conns : \A k \in 1 .. Len(rx[c]) :
             Cardinality(FromMessage(c, k)) <= 1)
    /\ [][last'.outcome = "sendCallback" =>
             /\ udpSent' = udpSent
             /\ wsOut' = wsOut
             /\ rx' = rx]_vars

C11_Witness ==
    /\ last.outcome = "sendCallback"
    /\ last.log = CallbackLog("ENETUNREACH")
    /\ cbPending = 0
    /\ \E c \in Conns : rx[c] # <<>> /\ Cardinality(FromMessage(c, 1)) = 1

\* C12: once a termination signal (SIGINT or SIGTERM) has ended the process,
\* the exit code is 0, the WebSocket server has been closed, and the UDP
\* socket has been closed if it was ever listening, whichever state the
\* signal arrived in.
C12_GracefulShutdown ==
    proc \in {"exited", "killed"} =>
        /\ exitCode = 0
        /\ wssState = "closed"
        /\ udpSocketReady => udpState = "closed"

\* C13: once the bind of the UDP socket has failed, the socket stays failed
\* (the bind is not tried again), udpSocketReady stays false, and nothing is
\* ever submitted to a UDP send, whatever messages arrive.
C13_BindFailureNoSend ==
    /\ [](udpState = "failed" => (~udpSocketReady /\ AllSent = <<>>))
    /\ [][udpState = "failed" => udpState' = "failed"]_vars

C13_Witness ==
    /\ udpState = "failed"
    /\ proc = "running"
    /\ AddressStartsWithSlash(last.data)
    /\ last.outcome = "notReady"

\* C14: when the bind of the UDP socket or of the WebSocket server has failed,
\* the process is not running any more and its exit code is not 0.
C14_BindFailureFatal ==
    (udpState = "failed" \/ wssState = "failed") =>
        (proc # "running" /\ exitCode # 0)

\* C16: a close or an error of one session leaves every other session, the
\* readiness flag, the UDP socket and the process as they were; a valid
\* message handled on any session while the socket is ready is sent unless
\* the codec fails.
C16_SessionIndependence ==
    /\ [][\A c \in Conns :
             (WsClose(c) \/ WsError(c)) =>
                /\ \A b \in Conns \ {c} : conn'[b] = conn[b]
                /\ UNCHANGED <<udpSocketReady, udpState, udpSent, cbPending,
                               wssState, proc, rx, wsOut>>]_vars
    /\ []((last.conn \in Conns /\ AddressStartsWithSlash(last.data)
              /\ last.ready) => last.outcome \in {"sent", "encodeError"})

C16_Witness ==
    \E c, b \in Conns :
        /\ conn[c] = "closed"
        /\ rx[c] # <<>>
        /\ conn[b] = "open"
        /\ last.conn = b
        /\ last.outcome = "sent"
        /\ proc = "running"

\* C17: the step of a datagram received on udpSocket changes nothing but the
\* log: no UDP send, nothing to any client, no other state.
C17_InboundOnlyLogs ==
    [][last'.outcome = "udpMessage" =>
          UNCHANGED <<cfgHost, cfgPort, proc, exitCode, udpState,
                      udpSocketReady, wssState, conn, wsOut, udpSent,
                      cbPending, selfTest, tcpProbe, udpProbe, rx>>]_vars

C17_Witness ==
    /\ last.outcome = "udpMessage"
    /\ udpSent # <<>>
    /\ \E c \in Conns : conn[c] = "open" /\ rx[c] # <<>>

\* C18: the destination host and port never change, every call of send, of
\* a forwarded message, of the self-test or of the probe, targets them, and
\* every greeting reports them.
C18_ConfigImmutable ==
    /\ [](/\ \A i \in 1 .. Len(AllSent) :
                AllSent[i].host = cfgHost /\ AllSent[i].port = cfgPort
          /\ \A c \in Conns : \A k \in 1 .. Len(wsOut[c]) :
                /\ wsOut[c][k].touchdesignerHost = cfgHost
                /\ wsOut[c][k].touchdesignerPort = cfgPort)
    /\ [][cfgHost' = cfgHost /\ cfgPort' = cfgPort]_vars

C18_Witness ==
    /\ cfgPort # DefaultPort
    /\ \E i \in 1 .. Len(udpSent) : IsWs(udpSent[i])
    /\ \E i \in 1 .. Len(udpSent) : udpSent[i].src[1] = "selftest"
    /\ ProbeSent # <<>>
    /\ \E c \in Conns : wsOut[c] # <<>>

\* the calls of udpSocket.send made by the self-test
SelfTestSent == {i \in 1 .. Len(udpSent) : udpSent[i].src[1] = "selftest"}

\* C15: once the UDP socket is listening, the self-test message is
\* eventually sent unless the process ends first or the codec fails on it; it
\* is sent at most once, to the configured destination, with address /test
\* and the arguments ('s', 'bridge_ready') and ('f', 1.0); and whatever
\* became of it, a valid message handled while the socket is ready is sent
\* unless the codec fails.
C15_SelfTest ==
    /\ udpSocketReady ~>
          (SelfTestSent # {} \/ proc # "running" \/ selfTest = "encodeFailed")
    /\ [](/\ Cardinality(SelfTestSent) <= 1
          /\ \A i \in SelfTestSent :
                /\ udpSent[i].sock = "udpSocket"
                /\ udpSent[i].host = cfgHost
                /\ udpSent[i].port = cfgPort
                /\ udpSent[i].buf[2].address = <<"/", "t", "e", "s", "t">>
                /\ udpSent[i].buf[2].args =
                      <<[type |-> "s",
                         value |-> <<"b", "r", "i", "d", "g", "e", "_",
                                     "r", "e", "a", "d", "y">>],
                        [type |-> "f", value |-> 1]>>)
    /\ []((/\ SelfTestSent # {}
           /\ last.conn \in Conns
           /\ AddressStartsWithSlash(last.data)
           /\ last.outcome # "encodeError") => last.outcome = "sent")

C15_Witness ==
    /\ Len(udpSent) = 2
    /\ SelfTestSent = {1}
    /\ IsWs(udpSent[2])
    /\ cbPending = 1
    /\ last.outcome = "sent"

\* C19: the attempt counter of the hook never exceeds 5; a reconnect timer is
\* set only by a close whose code is not 1000 and while the counter is below
\* 5, and setting it counts one attempt; the counter is 0 after every open.
C19_ReconnectBounded ==
    /\ [](reconnectAttemptsRef <= 5)
    /\ [][PendingTimers' > PendingTimers =>
             /\ event'.kind = "close"
             /\ event'.code # 1000
             /\ reconnectAttemptsRef < 5
             /\ reconnectAttemptsRef' = reconnectAttemptsRef + 1]_vars
    /\ [][\A i \in 1 .. Len(sockets) :
             (sockets[i] = "CONNECTING" /\ sockets'[i] = "OPEN") =>
                reconnectAttemptsRef' = 0]_vars

C19_Witness ==
    /\ reconnectAttemptsRef = 5
    /\ Len(sockets) = 6
    /\ event.kind = "close"
    /\ event.socket = 6
    /\ event.code = 1006
    /\ PendingTimers = 0

\* C20: while disconnect() has been called and connect() has not been called
\* since, no reconnect timer is pending and no WebSocket is created.
C20_DisconnectStops ==
    /\ [](stopped => PendingTimers = 0)
    /\ [][(stopped /\ stopped') => Len(sockets') = Len(sockets)]_vars

\* the hook was mounted with autoConnect, the component has called neither
\* connect() nor disconnect(), the constructor has not thrown and no socket
\* has opened: every attempt so far has ended, or will end, abnormally
OnlyFailures ==
    /\ mounted = "yes"
    /\ calls = 0
    /\ ~everOpen
    /\ sockets # <<>>
    /\ error # "Failed to create WebSocket connection"

\* the hook is at rest: every socket is closed and no timer is pending
AtRest ==
    /\ PendingTimers = 0
    /\ \A i \in 1 .. Len(sockets) : sockets[i] = "CLOSED"

\* C21: when every attempt ends in an abnormal close, the hook creates the
\* first socket and 5 more, and no seventh; it comes to rest only after the
\* sixth has closed, and then no timer is pending, connectionStatus is
\* 'disconnected' and error is 'Max reconnection attempts reached'.
C21_ReconnectTerminates ==
    OnlyFailures =>
        /\ Len(sockets) <= maxReconnectAttempts + 1
        /\ AtRest => Len(sockets) = maxReconnectAttempts + 1
        /\ (/\ Len(sockets) = maxReconnectAttempts + 1
            /\ sockets[maxReconnectAttempts + 1] = "CLOSED") =>
               /\ PendingTimers = 0
               /\ connectionStatus = "disconnected"
               /\ error = "Max reconnection attempts reached"

C21_Witness ==
    /\ OnlyFailures
    /\ AtRest
    /\ Len(sockets) = maxReconnectAttempts + 1

\* the latest step was a call of send() that returned true
SendReturnedTrue == event.kind = "send" /\ event.code = 1

\* C22: send() returns true only if isConnected holds and the current socket
\* is OPEN, and hands a text to that socket exactly when it returns true: not
\* while disconnected or connecting, not right after disconnect(), not on a
\* socket that is closing; the text is the JSON of an object whose address
\* is the address passed and whose args is an array with one element for
\* each argument passed.
C22_SendOnlyWhenOpen ==
    /\ [](event.kind = "send" =>
             /\ (event.code = 1) <=> (event.text # <<"none", 0>>)
             /\ event.code = 1 =>
                   /\ isConnected
                   /\ connectionStatus = "connected"
                   /\ wsRef # 0
                   /\ event.socket = wsRef
                   /\ sockets[wsRef] = "OPEN"
                   /\ event.text[1] = "json"
                   /\ event.text[2][1] = "object"
                   /\ event.text[2][2].address[1] = "string"
                   /\ event.text[2][2].args[1] = "array")
    /\ [][event'.kind = "disconnect" =>
             ~CanSend(isConnected', wsRef', sockets')]_vars
    /\ [][\A address \in SendAddresses, args \in SendArgs :
             (send(address, args) /\ event'.code = 1) =>
                /\ event'.text[2][2].address = Str(address)
                /\ Len(event'.text[2][2].args[2]) = Len(args)]_vars

C22_Witness ==
    /\ SendReturnedTrue
    /\ Len(event.text[2][2].args[2]) = 2
    /\ Len(sockets) >= 2

\* C23: isConnected holds exactly when connectionStatus is 'connected'.
C23_StatusAgrees == isConnected <=> (connectionStatus = "connected")

\* the sockets that are connecting or open
Live == {i \in 1 .. Len(sockets) : sockets[i] \in {"CONNECTING", "OPEN"}}

\* C24: at no time are two sockets of the hook connecting or open.
C24_OneSocket == Cardinality(Live) <= 1

\* C25: udpSocketReady is false until the socket is listening, changes only
\* in the step of the 'listening' event, from false to true, and is never
\* cleared, whatever errors the socket or its sends report; a message that
\* is handled while it is set and is valid is submitted to the UDP send.
C25_ReadyMonotone ==
    /\ [](udpState \in {"binding", "failed"} => ~udpSocketReady)
    /\ [][udpSocketReady' # udpSocketReady =>
             (~udpSocketReady /\ udpSocketReady' /\ UdpListening)]_vars
    /\ []((last.conn \in Conns /\ last.ready /\ last.outcome \notin Garbage)
             => (last.outcome = "sent" /\ LastDatagrams # {}))

C25_Witness ==
    /\ udpSocketReady
    /\ last.outcome = "sendCallback"
    /\ last.log = "error:Failed to send OSC message"
    /\ \E i \in 1 .. Len(udpSent) : IsWs(udpSent[i])

\* the calls of onChangeEnd since the latest drag began
Ends == {i \in 1 .. Len(dragLog) : dragLog[i].cb = "onChangeEnd"}

\* C26: a drag that is going on has had no onChangeEnd; a drag that has
\* ended has had exactly one, however many end events were delivered; that
\* call is the last call of the drag, carries the latest position of the
\* drag and follows an onChange with the same value.
C26_OneChangeEnd ==
    /\ isDraggingRef => Ends = {}
    /\ (drags > 0 /\ ~isDraggingRef) => Cardinality(Ends) = 1
    /\ \A i \in Ends :
          /\ i = Len(dragLog)
          /\ i > 1
          /\ dragLog[i - 1].cb = "onChange"
          /\ dragLog[i - 1].value = dragLog[i].value
          /\ dragLog[i].value = lastPos

C26_Witness ==
    /\ control = Knob
    /\ endSeen = EndKinds
    /\ Cardinality(Ends) = 1
    /\ Len(dragLog) >= 3
    /\ drags = 2

\* C27: a frame calls onChange at most once, with the position scheduled
\* most recently; the positions delivered by frames come in the order in
\* which they were scheduled, none twice.
C27_FramePaced ==
    /\ [][(/\ dragLog' # <<>>
            /\ dragLog' # dragLog
            /\ dragLog'[Len(dragLog')].by = "pump") =>
             /\ dragLog' = Append(dragLog, dragLog'[Len(dragLog')])
             /\ dragLog'[Len(dragLog')].cb = "onChange"
             /\ dragLog'[Len(dragLog')].value = lastPos
             /\ dragLog'[Len(dragLog')].n = scheduled]_vars
    /\ [](\A i, j \in 1 .. Len(dragLog) :
             (i < j /\ dragLog[j].by = "pump") => dragLog[i].n < dragLog[j].n)

C27_Witness ==
    /\ control = XY
    /\ Len(dragLog) = 1
    /\ dragLog[1].by = "pump"
    /\ dragLog[1].n = 2
    /\ dragLog[1].value # InitialValue(XY)

\* C28: at most one debounce timer is pending, and it holds the text of the
\* latest edit; onChange is called only by that timer, with that text, or by
\* Enter in single-line mode, once, with the text shown, and either way no
\* timer is left; an edit itself calls nothing, and nothing is pending or
\* called once the component is unmounted.
C28_Debounced ==
    /\ [](/\ Cardinality(textTimers) <= 1
          /\ \A t \in textTimers : t.value = lastEdit /\ textMounted)
    /\ [][textLog' # textLog =>
             /\ textMounted
             /\ textTimers' = {}
             /\ \/ /\ textTimers # {}
                   /\ textLog' = Append(textLog, [value |-> lastEdit,
                                                  by |-> "timer"])
                \/ /\ ~multiline
                   /\ edits' = edits + 1
                   /\ textLog' = Append(textLog, [value |-> internalValue,
                                                  by |-> "enter"])]_vars

C28_Witness ==
    /\ ~multiline
    /\ edits = MaxEdits
    /\ Len(textLog) = 2
    /\ textLog[1].by = "enter"
    /\ textLog[2] = [value |-> lastEdit, by |-> "timer"]
    /\ timerIds = 2

\* C29: no entry of the prompt history is empty or has a space at either
\* end, no two entries are equal, and the history changes only by one new
\* entry at the front.
C29_UniquePrompts ==
    /\ [](\A i \in 1 .. Len(promptHistory) :
             /\ promptHistory[i] # <<>>
             /\ Trim(promptHistory[i]) = promptHistory[i]
             /\ \A j \in 1 .. Len(promptHistory) :
                   i # j => promptHistory[i] # promptHistory[j])
    /\ [][promptHistory' # promptHistory =>
             /\ Len(promptHistory') = Len(promptHistory) + 1
             /\ Tail(promptHistory') = promptHistory]_vars

\* the list without its i-th element
RemoveAt(list, i) == SubSeq(list, 1, i - 1) \o SubSeq(list, i + 1, Len(list))

\* C30: after a save or a delete that localStorage took, the stored text
\* parses to the history in memory; a save puts one pair with the current
\* left and right colours in front of the history; a delete from row i
\* removes that row alone and keeps the other pairs in their order.
C30_HistoryPersisted ==
    [][/\ (colorEvent'.op \in {"save", "delete"} /\ colorEvent'.wrote) =>
             /\ storage' # <<>>
             /\ ParseHistory(storage'[1]) = colorHistory'
       /\ colorEvent'.op = "save" /\ colorHistory' # colorHistory =>
             /\ Len(colorHistory') = Len(colorHistory) + 1
             /\ Tail(colorHistory') = colorHistory
             /\ Head(colorHistory').leftColor = leftColor
             /\ Head(colorHistory').rightColor = rightColor
       /\ colorEvent'.op = "delete" /\ colorHistory' # colorHistory =>
             colorHistory' = RemoveAt(colorHistory, colorEvent'.index)]_vars

=============================================================================
